---- MODULE Spec2Model ----
(***************************************************************************)
(* Model of the stateful subsystems of ecewo-modules:                      *)
(*   - the cluster supervisor   (src/src/cluster/ecewo-cluster.c)          *)
(*   - the async database bridge (src/src/postgres/ecewo-postgres.c)       *)
(*   - the session store        (src/session/ecewo-session.c)              *)
(*   - the cookie codec         (src/src/cookie/ecewo-cookie.c)            *)
(*   - the static file handler  (src/src/static/ecewo-static.c)            *)
(*   - the async file operations (src/src/fs/ecewo-fs.c)                   *)
(* Each subsystem has its own specifications; the variables of the other   *)
(* subsystems stay unchanged in them.                                      *)
(***************************************************************************)
EXTENDS Integers, Sequences, FiniteSets, TLC

VARIABLES
    \* ---- cluster supervisor (master process) ----
    cluster_state,        \* the static cluster_state singleton
    workers,              \* cluster_state.workers[]: the worker records
    proc,                 \* the worker OS processes (environment)
    sent,                 \* signals the master sent to each worker's current process
    sigpend,              \* signals delivered to the master, not yet dispatched
    hs,                   \* libuv state of each worker record's uv_process_t handle
    clobbered,            \* handles re-initialised while their close was pending
    mpc,                  \* position of the master program
    ran,                  \* uv_run(UV_RUN_ONCE): a callback ran in this iteration
    wall,                 \* time(NULL), seconds
    mono,                 \* the loop's monotonic clock, in steps of MonoStepMs
    loop_now,             \* uv_now(loop): the loop's cached time
    shutdown_start_time,  \* local of cluster_wait_workers
    crash_times,          \* observer: times of the latest crash exits per worker
    main,                 \* what main() hands to cluster_init: config, argc, argv
    \* ---- async database bridge (worker process) ----
    pg,                   \* the PGquery contexts (struct pg_async_s)
    async_work,           \* the server's outstanding-work counter
    server_running,       \* server_is_running()
    nid,                  \* observer: the next statement number of each context
    sent_log,             \* observer: statements sent to the connection, in order
    cb_log,               \* observer: statements whose result_cb ran, in order
    inflight,             \* observer: statements sent and not yet drained
    pg_last,              \* observer: the last bridge operation and what it returned
    \* ---- session store (worker process) ----
    sessions,             \* the session table: one record per slot (its length
                          \* is max_sessions)
    ss_initialized,       \* the static initialized flag
    ss_now,               \* time(NULL) as the session store reads it
    id_counter,           \* the static counter of the fallback id generator
    urandom_reads,        \* the number of reads of /dev/urandom so far
    ctype_hi,             \* what isalnum answers for a char above 127 in this build
    ss_last,              \* observer: the last session operation and its result
    \* ---- cookies of one request and its response (worker process) ----
    cookie_args,          \* what a handler hands to cookie_set: name, value, options
    res_headers,          \* the headers of the response, in the order they were set
    req_cookie,           \* the Cookie header of the request (NullStr: none)
    ck_last,              \* observer: the last cookie operation and where it came from
    \* ---- static file handler (worker process) ----
    static_contexts,      \* static_contexts.items[0 .. count - 1]: the mounts
    req_path,             \* req->path of the request the router hands over
    st_res,               \* the response: its status (0: none yet) and the file
                          \* whose read was started for it (NullStr: none)
    \* ---- asynchronous file operations of one request (worker process) ----
    arena,                \* the arena of the request: alive, and its reference count
    fs_ops,               \* the file operations: position and error of each
    fs_replied            \* res->replied: the response of the request was written

clVars == <<cluster_state, workers, proc, sent, sigpend, hs, clobbered, mpc, ran,
            wall, mono, loop_now, shutdown_start_time,
            crash_times>>

pgVars == <<pg, async_work, server_running, nid, sent_log, cb_log, inflight, pg_last>>

ssVars == <<sessions, ss_initialized, ss_now, id_counter, urandom_reads, ctype_hi,
            ss_last>>

\* the arguments of the program: nothing writes them
argVars == <<main>>

ckVars == <<cookie_args, res_headers, req_cookie, ck_last>>

stVars == <<static_contexts, req_path, st_res>>

fsVars == <<arena, fs_ops, fs_replied>>

vars == <<clVars, pgVars, ssVars, argVars, ckVars, stVars, fsVars>>

notCl == <<pgVars, ssVars, argVars, ckVars, stVars, fsVars>>
notPg == <<clVars, ssVars, argVars, ckVars, stVars, fsVars>>
notSs == <<clVars, pgVars, argVars, ckVars, stVars, fsVars>>
notCk == <<clVars, pgVars, ssVars, argVars, stVars, fsVars>>
notSt == <<clVars, pgVars, ssVars, argVars, ckVars, fsVars>>
notFs == <<clVars, pgVars, ssVars, argVars, ckVars, stVars>>

-----------------------------------------------------------------------------
(* Bounds of the model *)

MaxWorkers == 2
MaxWall == 11
MaxMono == 4
MonoStepMs == 20000
ConfigPort == 8080
NumCtx == 2
MaxStmts == 2
MaxResults == 2
MaxSlots == 4
MaxCreates == 3
MaxTime == 4
\* 10 in the source; scaled to the number of sessions of the model
MAX_SESSIONS_DEFAULT == 2
\* 4096 in the source; scaled to the lengths of the strings of the model
MAX_SESSION_DATA_SIZE == 12
MaxArgc == 5
\* the size limits of the cookie codec (4096, 4096 and 256 in the source), scaled
MAX_COOKIE_VALUE_LEN == 160
MAX_COOKIE_SIZE == 160
MAX_COOKIE_NAME_LEN == 10
MaxCookieAge == 3600
\* sizeof(filepath) of static_handler (1024 in the source), scaled
FILEPATH_SIZE == 28
MaxSegments == 3
NumFsOps == 2

(* Program constants *)

RESPAWN_THROTTLE_COUNT == 3
RESPAWN_THROTTLE_WINDOW == 5
GRACE_MS == 30000
SESSION_ID_LEN == 32
KV_DELIMITER == 31
PAIR_DELIMITER == 30
MAX_COOKIES_PER_REQUEST == 50

SIGTERM == "SIGTERM"
SIGINT == "SIGINT"
SIGUSR2 == "SIGUSR2"
SIGKILL == "SIGKILL"
NOSIG == "none"
WORKER_STOP_SIGNAL == SIGTERM

WorkerIds == 0 .. (MaxWorkers - 1)

-----------------------------------------------------------------------------
(* Cluster supervisor *)

\* calloc'ed worker_process_t (start_time and exit_status are written and only
\* ever read for a log line: they are left out)
ZeroWorker ==
    [worker_id |-> 0, port |-> 0, active |-> FALSE,
     restart_times |-> [i \in 0 .. (RESPAWN_THROTTLE_COUNT - 1) |-> 0],
     restart_count |-> 0, respawn_disabled |-> FALSE]

\* a null char** (argv, or what build_worker_args returns on failure)
NullArgv == <<<<-1>>>>

\* "--cluster-worker" as its bytes
SENTINEL == <<45, 45, 99, 108, 117, 115, 116, 101, 114, 45, 119, 111, 114, 107, 101, 114>>

\* atoi: the digits from index i on, in base ten
RECURSIVE AtoiDigits(_, _, _)
AtoiDigits(str, i, acc) ==
    IF i > Len(str) \/ str[i] < 48 \/ str[i] > 57 THEN acc
    ELSE AtoiDigits(str, i + 1, acc * 10 + (str[i] - 48))

\* atoi: leading white space, an optional sign, then digits; 0 without digits
RECURSIVE AtoiFrom(_, _)
AtoiFrom(str, i) ==
    IF i > Len(str) THEN 0
    ELSE IF str[i] = 32 \/ (str[i] >= 9 /\ str[i] <= 13) THEN AtoiFrom(str, i + 1)
    ELSE IF str[i] = 45 THEN 0 - AtoiDigits(str, i + 1, 0)
    ELSE IF str[i] = 43 THEN AtoiDigits(str, i + 1, 0)
    ELSE AtoiDigits(str, i, 0)

Atoi(str) == AtoiFrom(str, 1)

\* the casts (uint8_t) and (uint16_t) of an int
Uint8(n) == n % 256
Uint16(n) == n % 65536

\* snprintf(buf, 16, "%u", n)
RECURSIVE FormatU(_)
FormatU(n) ==
    IF n < 10 THEN <<48 + n>>
    ELSE FormatU(n \div 10) \o <<48 + (n % 10)>>

\* faulty variant of FindWorkerTriple: the sentinel is never recognised
FindWorkerTripleNone(args) == 0

\* cluster_init, the loop of lines 628-644: the position (counted from 1) of
\* the first "--cluster-worker" that has two arguments after it, 0 if none
FindWorkerTriple(args) ==
    IF \E j \in 2 .. (Len(args) - 2) : args[j] = SENTINEL
    THEN CHOOSE j \in 2 .. (Len(args) - 2) :
            /\ args[j] = SENTINEL
            /\ \A k \in 2 .. (j - 1) : args[k] # SENTINEL
    ELSE 0

\* build_worker_args, the loops of lines 143-152 and 167-176: the arguments
\* from position i on, a "--cluster-worker" and the two positions after it
\* skipped
RECURSIVE FilterArgsFrom(_, _)
FilterArgsFrom(argv, i) ==
    IF i > Len(argv) THEN <<>>
    ELSE IF argv[i] = SENTINEL THEN FilterArgsFrom(argv, i + 3)
    ELSE <<argv[i]>> \o FilterArgsFrom(argv, i + 1)

\* faulty variant of BuildWorkerArgs: the port passed is base port + worker id
BuildWorkerArgsPortPerWorker(cs, worker_id, port) ==
    IF cs.original_argv = NullArgv \/ Len(cs.original_argv) = 0 THEN NullArgv
    ELSE <<cs.exe_path>> \o FilterArgsFrom(cs.original_argv, 2)
            \o <<SENTINEL, FormatU(worker_id), FormatU(port + worker_id)>>

\* build_worker_args
BuildWorkerArgs(cs, worker_id, port) ==
    IF cs.original_argv = NullArgv \/ Len(cs.original_argv) = 0 THEN NullArgv
    ELSE <<cs.exe_path>> \o FilterArgsFrom(cs.original_argv, 2)
            \o <<SENTINEL, FormatU(worker_id), FormatU(port)>>

\* a worker process: its state, how it ended, and the argv it was started with
NoProc == [st |-> "none", status |-> 0, sig |-> NOSIG, args |-> NullArgv]

Running(args) == [st |-> "running", status |-> 0, sig |-> NOSIG, args |-> args]

\* faulty variant of ShouldRespawnWorker: a crashed worker is never respawned
ShouldRespawnNever(cs, wk, now) == [ret |-> FALSE, worker |-> wk]

\* should_respawn_worker: the throttle ring. Returns the verdict and the record
\* as the function leaves it.
ShouldRespawnWorker(cs, wk, now) ==
    IF ~cs.respawn \/ wk.respawn_disabled
    THEN [ret |-> FALSE, worker |-> wk]
    ELSE
      LET shifted ==
            IF wk.restart_count >= RESPAWN_THROTTLE_COUNT
            THEN [wk EXCEPT
                    !.restart_times =
                        [i \in 0 .. (RESPAWN_THROTTLE_COUNT - 1) |->
                            IF i < RESPAWN_THROTTLE_COUNT - 1
                            THEN wk.restart_times[i + 1]
                            ELSE wk.restart_times[i]],
                    !.restart_count = RESPAWN_THROTTLE_COUNT - 1]
            ELSE wk
          stamped ==
            [shifted EXCEPT
                !.restart_times[shifted.restart_count] = now,
                !.restart_count = shifted.restart_count + 1]
          window == now - stamped.restart_times[0]
      IN IF stamped.restart_count >= RESPAWN_THROTTLE_COUNT
            /\ window < RESPAWN_THROTTLE_WINDOW
         THEN [ret |-> FALSE, worker |-> [stamped EXCEPT !.respawn_disabled = TRUE]]
         ELSE [ret |-> TRUE, worker |-> stamped]

\* spawn_worker: ok is the result of uv_spawn. Returns the return value, the
\* worker records and whether the record (and its handle) was re-initialised.
SpawnWorker(cs, ws, id, port, ok, now) ==
    IF id >= cs.worker_count \/ cs.original_argv = NullArgv
    THEN [ret |-> -1, workers |-> ws, reinit |-> FALSE, args |-> NullArgv]
    ELSE
      LET fresh == [ZeroWorker EXCEPT !.worker_id = id, !.port = port]
          args == BuildWorkerArgs(cs, id, port)
      IN IF ok
         THEN [ret |-> 0,
               workers |-> [ws EXCEPT ![id] = [fresh EXCEPT !.active = TRUE]],
               reinit |-> TRUE, args |-> args]
         ELSE [ret |-> -1, workers |-> [ws EXCEPT ![id] = fresh], reinit |-> TRUE,
               args |-> args]

\* faulty variant of InitSpawnLoop: startup is aborted when half of the workers
\* have failed
RECURSIVE InitSpawnLoopAbortAtHalf(_, _, _, _, _, _, _)
InitSpawnLoopAbortAtHalf(cs, ws, i, failed, ok, now, tried) ==
    IF i >= cs.worker_count
    THEN [ret |-> TRUE, workers |-> ws, tried |-> tried]
    ELSE
      LET r == SpawnWorker(cs, ws, i, cs.base_port, ok[i], now)
          f == IF r.ret # 0 THEN failed + 1 ELSE failed
      IN IF r.ret # 0 /\ f >= cs.worker_count \div 2
         THEN [ret |-> FALSE, workers |-> r.workers, tried |-> tried \cup {i}]
         ELSE InitSpawnLoopAbortAtHalf(cs, r.workers, i + 1, f, ok, now,
                                       tried \cup {i})

\* the spawn loop of cluster_init: ok[i] is the result of uv_spawn for worker i.
\* Returns whether the loop ran to its end, the records and the ids it spawned.
RECURSIVE InitSpawnLoop(_, _, _, _, _, _, _)
InitSpawnLoop(cs, ws, i, failed, ok, now, tried) ==
    IF i >= cs.worker_count
    THEN [ret |-> TRUE, workers |-> ws, tried |-> tried]
    ELSE
      LET r == SpawnWorker(cs, ws, i, cs.base_port, ok[i], now)
          f == IF r.ret # 0 THEN failed + 1 ELSE failed
      IN IF r.ret # 0 /\ f > cs.worker_count \div 2
         THEN [ret |-> FALSE, workers |-> r.workers, tried |-> tried \cup {i}]
         ELSE InitSpawnLoop(cs, r.workers, i + 1, f, ok, now, tried \cup {i})

AnyActive == \E i \in WorkerIds : i < cluster_state.worker_count /\ workers[i].active

AllActive(cs, ws) == \A i \in WorkerIds : i < cs.worker_count => ws[i].active

\* faulty variant of KillActive: the signal goes to every worker record
KillEveryWorker(sig) ==
    [i \in WorkerIds |->
        IF i < cluster_state.worker_count THEN sent[i] \cup {sig} ELSE sent[i]]

\* uv_process_kill(sig) on every active worker
KillActive(sig) ==
    [i \in WorkerIds |->
        IF i < cluster_state.worker_count /\ workers[i].active
        THEN sent[i] \cup {sig} ELSE sent[i]]

ActiveSet == {i \in WorkerIds : i < cluster_state.worker_count /\ workers[i].active}

MasterRunning == mpc \in {"master", "check", "run"}

\* the program name, the path uv_exepath resolves it to, and an option
Prog == <<97, 112, 112>>
ExePath == <<47, 97, 112, 112>>
OptV == <<45, 118>>

\* a valid configuration for n workers, and the argv of a master started as "app"
MasterMain(n, respawn) ==
    [config_null |-> FALSE, cpus |-> n, port |-> ConfigPort, respawn |-> respawn,
     argv_null |-> FALSE, argv |-> <<Prog>>, exe_ok |-> TRUE]

\* the static cluster_state before cluster_init, and no worker anywhere
ClStart ==
    /\ cluster_state = [is_master |-> FALSE, worker_id |-> 0, worker_port |-> 0,
                        worker_count |-> 0, base_port |-> 0,
                        respawn |-> FALSE, original_argv |-> NullArgv,
                        exe_path |-> <<>>,
                        workers_alloc |-> FALSE, signals |-> FALSE,
                        shutdown_requested |-> FALSE,
                        graceful_restart_requested |-> FALSE,
                        initialized |-> FALSE]
    /\ workers = [i \in WorkerIds |-> ZeroWorker]
    /\ proc = [i \in WorkerIds |-> NoProc]
    /\ sent = [i \in WorkerIds |-> {}]
    /\ sigpend = {}
    /\ hs = [i \in WorkerIds |-> "uninit"]
    /\ clobbered = {}
    /\ mpc = "start"
    /\ ran = FALSE
    /\ wall = 1
    /\ mono = 1
    /\ loop_now = 1
    /\ shutdown_start_time = 0
    /\ crash_times = [i \in WorkerIds |-> <<>>]

\* the cluster before cluster_init, in a program that is not run as a cluster
ClInit == ClStart /\ main = MasterMain(1, FALSE)

\* faulty variant of InvalidConfig: a port of 0 is let through
InvalidConfigPortUnchecked(m) == m.config_null \/ m.cpus = 0 \/ m.argv_null

\* cluster_init, line 612: !config || config->cpus == 0 || config->port == 0
\* || !argv
InvalidConfig(m) == m.config_null \/ m.cpus = 0 \/ m.port = 0 \/ m.argv_null

\* save_original_args, apply_config and line 621
ConfigApplied(cs, m) ==
    [cs EXCEPT !.original_argv = m.argv,
               !.exe_path = IF m.exe_ok THEN ExePath ELSE m.argv[1],
               !.worker_count = m.cpus,
               !.respawn = m.respawn,
               !.base_port = m.port]

\* cluster_get_port, cluster_is_master, cluster_is_worker, cluster_worker_id
ClusterGetPort(cs) ==
    IF ~cs.initialized THEN 0
    ELSE IF cs.is_master THEN cs.base_port ELSE cs.worker_port

ClusterIsMaster(cs) == cs.initialized /\ cs.is_master

ClusterIsWorker(cs) == cs.initialized /\ ~cs.is_master

ClusterWorkerId(cs) == cs.worker_id

\* cluster_init(config, argc, argv) with the arguments of main; ok[i] is the
\* result of uv_spawn for worker i. mpc tells what it returned: "master" for
\* true, "worker" and "init_failed" for false.
ClusterInit(ok) ==
    /\ mpc = "start"
    /\ ~cluster_state.initialized
    /\ IF InvalidConfig(main)
       THEN /\ mpc' = "init_failed"
            /\ UNCHANGED <<cluster_state, workers, proc, hs>>
       ELSE
         LET cs0 == ConfigApplied(cluster_state, main)
             t == FindWorkerTriple(main.argv)
         IN IF t # 0
            THEN /\ cluster_state' =
                        [cs0 EXCEPT !.is_master = FALSE,
                                    !.worker_id = Uint8(Atoi(main.argv[t + 1])),
                                    !.worker_port = Uint16(Atoi(main.argv[t + 2])),
                                    !.initialized = TRUE]
                 /\ mpc' = "worker"
                 /\ UNCHANGED <<workers, proc, hs>>
            ELSE
              LET cs == [cs0 EXCEPT !.is_master = TRUE, !.worker_id = 0,
                                    !.signals = TRUE, !.workers_alloc = TRUE]
                  r == InitSpawnLoop(cs, [i \in WorkerIds |-> ZeroWorker], 0, 0, ok,
                                     wall, {})
              IN /\ workers' = r.workers
                 /\ proc' = [i \in WorkerIds |->
                               IF i \in r.tried /\ ok[i]
                               THEN Running(SpawnWorker(cs, r.workers, i, cs.base_port,
                                                        TRUE, wall).args)
                               ELSE NoProc]
                 /\ hs' = [i \in WorkerIds |->
                               IF i \in r.tried
                               THEN (IF ok[i] THEN "active" ELSE "inited")
                               ELSE "uninit"]
                 /\ IF r.ret
                    THEN /\ cluster_state' = [cs EXCEPT !.initialized = TRUE]
                         /\ mpc' = "master"
                    ELSE /\ cluster_state' = [cs EXCEPT !.original_argv = NullArgv]
                         /\ mpc' = "init_failed"
    /\ UNCHANGED <<sent, sigpend, clobbered, ran, wall, mono, loop_now,
                   shutdown_start_time, crash_times>>
    /\ UNCHANGED notCl

\* the master program calls cluster_wait_workers
WaitEnter ==
    /\ mpc = "master"
    /\ cluster_state.is_master /\ cluster_state.initialized
    /\ mpc' = "check"
    /\ shutdown_start_time' = 0
    /\ UNCHANGED <<cluster_state, workers, proc, sent, sigpend, hs, clobbered, ran,
                   wall, mono, loop_now, crash_times>>
    /\ UNCHANGED notCl

\* cluster_cleanup, as called at the end of cluster_wait_workers
CleanedState == [cluster_state EXCEPT
                    !.workers_alloc = FALSE, !.original_argv = NullArgv,
                    !.signals = FALSE, !.initialized = FALSE]

\* uv_loop_alive: an active or closing handle is registered
LoopAlive(h) ==
    \/ cluster_state.signals
    \/ \E i \in WorkerIds : h[i] \in {"active", "closing"}

\* one pass of the while loop of cluster_wait_workers, up to the call of uv_run
WaitCheck ==
    /\ mpc = "check"
    /\ LET start == IF cluster_state.shutdown_requested /\ shutdown_start_time = 0
                    THEN loop_now * MonoStepMs ELSE shutdown_start_time
           elapsed == loop_now * MonoStepMs - start
       IN IF ~AnyActive
          THEN /\ mpc' = "returned"
               /\ cluster_state' = CleanedState
               /\ UNCHANGED <<sent, shutdown_start_time, loop_now, ran>>
          ELSE IF cluster_state.shutdown_requested /\ elapsed > GRACE_MS
          THEN /\ mpc' = "returned"
               /\ sent' = KillActive(SIGKILL)
               /\ cluster_state' = CleanedState
               /\ shutdown_start_time' = start
               /\ UNCHANGED <<loop_now, ran>>
          ELSE /\ mpc' = "run"
               /\ ran' = FALSE
               /\ loop_now' = mono
               /\ shutdown_start_time' = start
               /\ UNCHANGED <<cluster_state, sent>>
    /\ UNCHANGED <<workers, proc, sigpend, hs, clobbered, wall, mono,
                   crash_times>>
    /\ UNCHANGED notCl

\* a callback is dispatched by the poll phase of uv_run, which updates uv_now
Dispatch ==
    /\ mpc = "run"
    /\ ran' = TRUE
    /\ loop_now' = IF ran THEN loop_now ELSE mono

\* uv_run(UV_RUN_ONCE) returns after its closing phase, and the wait loop tests
\* uv_loop_alive. A handle that was re-initialised by spawn_worker while its
\* close was pending is found by uv__run_closing_handles without its closing
\* flag: the assertion of libuv aborts the master, or (assertions compiled out)
\* the loop carries on.
UvRunReturn(outcome) ==
    /\ mpc = "run"
    /\ ran
    /\ IF clobbered # {} /\ outcome = "abort"
       THEN /\ mpc' = "aborted"
            /\ UNCHANGED <<hs, clobbered, cluster_state>>
       ELSE LET h == [i \in WorkerIds |-> IF hs[i] = "closing" THEN "closed" ELSE hs[i]]
            IN /\ hs' = h
               /\ clobbered' = {}
               /\ IF ~LoopAlive(h)
                  THEN /\ mpc' = "returned"
                       /\ cluster_state' = CleanedState
                  ELSE /\ mpc' = "check"
                       /\ UNCHANGED cluster_state
    /\ UNCHANGED <<workers, proc, sent, sigpend, ran, wall, mono,
                   loop_now, shutdown_start_time, crash_times>>
    /\ UNCHANGED notCl

\* on_exit_cb: the exit of worker w's process is reported; ok is the result of
\* uv_spawn should the worker be respawned.
OnExit(w, ok) ==
    /\ Dispatch
    /\ cluster_state.is_master
    /\ hs[w] = "active"
    /\ proc[w].st = "exited"
    /\ LET ex == proc[w]
           cs == cluster_state
           is_crash == /\ ~cs.shutdown_requested
                       /\ ~cs.graceful_restart_requested
                       /\ ex.status # 0
                       /\ ex.sig \notin {SIGTERM, SIGINT}
           w1 == [workers[w] EXCEPT !.active = FALSE]
           thr == IF ~cs.graceful_restart_requested /\ is_crash
                  THEN ShouldRespawnWorker(cs, w1, wall)
                  ELSE [ret |-> FALSE, worker |-> w1]
           should_respawn == cs.graceful_restart_requested \/ thr.ret
           ws1 == [workers EXCEPT ![w] = thr.worker]
           sp == IF should_respawn
                 THEN SpawnWorker(cs, ws1, w, w1.port, ok, wall)
                 ELSE [ret |-> -1, workers |-> ws1, reinit |-> FALSE,
                       args |-> NullArgv]
           started == should_respawn /\ sp.ret = 0
           \* observer: the claim-level notion of a crash exit
           counted == cs.respawn /\ ~cs.shutdown_requested
                      /\ ~cs.graceful_restart_requested /\ ex.status # 0
           log == IF counted THEN Append(crash_times[w], wall) ELSE crash_times[w]
       IN /\ workers' = sp.workers
          /\ cluster_state' =
                IF cs.graceful_restart_requested /\ AllActive(cs, sp.workers)
                THEN [cs EXCEPT !.graceful_restart_requested = FALSE]
                ELSE cs
          /\ hs' = [hs EXCEPT ![w] = IF started THEN "active"
                                     ELSE IF sp.reinit THEN "inited" ELSE "closing"]
          /\ clobbered' = IF sp.reinit THEN clobbered \cup {w} ELSE clobbered
          /\ proc' = [proc EXCEPT ![w] =
                        IF started THEN Running(sp.args) ELSE NoProc]
          /\ sent' = [sent EXCEPT ![w] = {}]
          /\ crash_times' = [crash_times EXCEPT ![w] =
                                IF Len(log) > RESPAWN_THROTTLE_COUNT
                                THEN Tail(log) ELSE log]
    /\ UNCHANGED <<sigpend, mpc, wall, mono, shutdown_start_time>>
    /\ UNCHANGED notCl

\* on_sigterm and on_sigint have the same body
OnShutdownSignal(sig) ==
    /\ Dispatch
    /\ sig \in sigpend
    /\ sigpend' = sigpend \ {sig}
    /\ cluster_state.is_master
    /\ IF cluster_state.shutdown_requested
       THEN UNCHANGED <<cluster_state, sent>>
       ELSE /\ cluster_state' = [cluster_state EXCEPT !.shutdown_requested = TRUE]
            /\ sent' = KillActive(WORKER_STOP_SIGNAL)
    /\ UNCHANGED <<workers, proc, hs, clobbered, mpc, wall, mono,
                   shutdown_start_time, crash_times>>
    /\ UNCHANGED notCl

OnSigterm == OnShutdownSignal(SIGTERM)

OnSigint == OnShutdownSignal(SIGINT)

OnSigusr2 ==
    /\ Dispatch
    /\ SIGUSR2 \in sigpend
    /\ sigpend' = sigpend \ {SIGUSR2}
    /\ cluster_state.is_master
    /\ IF cluster_state.graceful_restart_requested \/ cluster_state.shutdown_requested
       THEN UNCHANGED <<cluster_state, sent>>
       ELSE /\ cluster_state' = [cluster_state EXCEPT
                                    !.graceful_restart_requested = TRUE]
            /\ sent' = KillActive(SIGTERM)
    /\ UNCHANGED <<workers, proc, hs, clobbered, mpc, wall, mono,
                   shutdown_start_time, crash_times>>
    /\ UNCHANGED notCl

-----------------------------------------------------------------------------
(* Environment of the master *)

ExitKinds == {<<0, NOSIG>>, <<1, NOSIG>>, <<0, SIGTERM>>}

\* a worker process ends: exit(status), or death by a signal
WorkerExit(w, kind) ==
    /\ MasterRunning
    /\ proc[w].st = "running"
    /\ proc' = [proc EXCEPT ![w] = [st |-> "exited", status |-> kind[1], sig |-> kind[2],
                                     args |-> proc[w].args]]
    /\ UNCHANGED <<cluster_state, workers, sent, sigpend, hs, clobbered, mpc, ran,
                   wall, mono, loop_now, shutdown_start_time,
                   crash_times>>
    /\ UNCHANGED notCl

\* a signal is delivered to the master
SendSignal(sig) ==
    /\ MasterRunning
    /\ cluster_state.signals
    /\ sigpend = {}
    /\ sigpend' = sigpend \cup {sig}
    /\ UNCHANGED <<cluster_state, workers, proc, sent, hs, clobbered, mpc, ran,
                   wall, mono, loop_now, shutdown_start_time,
                   crash_times>>
    /\ UNCHANGED notCl

\* time(NULL) advances; the model's clock moves a throttle window at a time
TickWall ==
    /\ MasterRunning
    /\ wall + RESPAWN_THROTTLE_WINDOW <= MaxWall
    /\ wall' = wall + RESPAWN_THROTTLE_WINDOW
    \* observer: exits a whole window old can no longer count
    /\ crash_times' = [i \in WorkerIds |-> <<>>]
    /\ UNCHANGED <<cluster_state, workers, proc, sent, sigpend, hs, clobbered, mpc,
                   ran, mono, loop_now, shutdown_start_time>>
    /\ UNCHANGED notCl

\* the monotonic clock advances by MonoStepMs while the loop is blocked in its
\* poll phase (the callbacks themselves take no time)
TickMono ==
    /\ mpc = "run"
    /\ ~ran
    /\ mono < MaxMono
    /\ mono' = mono + 1
    /\ UNCHANGED <<cluster_state, workers, proc, sent, sigpend, hs, clobbered, mpc,
                   ran, wall, loop_now, shutdown_start_time,
                   crash_times>>
    /\ UNCHANGED notCl

-----------------------------------------------------------------------------
(* Async database bridge (POSIX build: uv_poll_t on the connection's socket). *)
(* Every context has a connection of its own.                                 *)

Ctx == 1 .. NumCtx

\* current_query == NULL
NoQuery == [id |-> 0, cb |-> FALSE]

\* a context that query_create has not made yet. decs and incs count the calls
\* of decrement_async_work and increment_async_work made for the context,
\* frees the calls of free_pgquery on it, cancels the calls of PQcancel.
NoCtx ==
    [st |-> "none", is_connected |-> FALSE, is_executing |-> FALSE,
     handle_initialized |-> FALSE, poll |-> "uninit", close_cb |-> "none",
     query_queue |-> <<>>, current_query |-> NoQuery, error_message |-> FALSE,
     incs |-> 0, decs |-> 0, frees |-> 0, cancels |-> 0]

\* free_pgquery
FreePgquery(p) == [p EXCEPT !.st = "freed", !.frees = p.frees + 1]

\* if (!uv_is_closing(&pg->poll)) uv_close(&pg->poll, cb)
UvClose(p, cb) ==
    IF p.poll \in {"closing", "closed"} THEN p
    ELSE [p EXCEPT !.poll = "closing", !.close_cb = cb]

\* faulty variant of PgAsyncCancel: the pending statements are kept
PgAsyncCancelKeepQueue(p) ==
    LET p1 == IF p.is_executing /\ p.handle_initialized
              THEN [UvClose(p, "none") EXCEPT !.handle_initialized = FALSE]
              ELSE p
        p2 == IF p.is_executing THEN [p1 EXCEPT !.cancels = p1.cancels + 1] ELSE p1
    IN [p2 EXCEPT !.is_executing = FALSE, !.current_query = NoQuery]

\* pg_async_cancel
PgAsyncCancel(p) ==
    LET p1 == IF p.is_executing /\ p.handle_initialized
              THEN [UvClose(p, "none") EXCEPT !.handle_initialized = FALSE]
              ELSE p
        p2 == IF p.is_executing THEN [p1 EXCEPT !.cancels = p1.cancels + 1] ELSE p1
    IN [p2 EXCEPT !.is_executing = FALSE, !.query_queue = <<>>,
                  !.current_query = NoQuery]

\* faulty variant of PgAsyncDestroy: the context is freed at once while the
\* close of its handle is still pending
PgAsyncDestroyFreesAtOnce(p) ==
    LET p1 == PgAsyncCancel(p)
    IN IF p1.handle_initialized
       THEN FreePgquery(UvClose(p1, "free"))
       ELSE FreePgquery(p1)

\* pg_async_destroy
PgAsyncDestroy(p) ==
    LET p1 == PgAsyncCancel(p)
    IN IF p1.handle_initialized
       THEN UvClose(p1, "free")
       ELSE FreePgquery(p1)

\* decrement_async_work, counted for the context that calls it
Decrement(p) == [p EXCEPT !.decs = p.decs + 1]

\* handle_error
HandleError(p) ==
    LET p1 == [p EXCEPT !.error_message = TRUE]
        p2 == IF p1.is_executing
              THEN Decrement([p1 EXCEPT !.is_executing = FALSE])
              ELSE p1
    IN PgAsyncDestroy(p2)

\* faulty variant of ExecDone: the decrement of the work counter is left out
ExecDoneNoDecrement(p) == PgAsyncDestroy([p EXCEPT !.is_executing = FALSE])

\* execute_next_query, lines 377-392: the queue is empty or the server stopped
ExecDone(p) == PgAsyncDestroy(Decrement([p EXCEPT !.is_executing = FALSE]))

\* faulty variant of PopQueue: the statement queued last is taken first
PopQueueTail(q) == [cur |-> q[Len(q)], rest |-> SubSeq(q, 1, Len(q) - 1)]

\* execute_next_query, lines 394-399: take the head of the queue
PopQueue(q) == [cur |-> Head(q), rest |-> Tail(q)]

\* faulty variant of UvPollStart: the handle is left as it is
UvPollStartNothing(p) == p

\* uv_poll_start(&pg->poll, UV_READABLE | UV_WRITABLE, on_poll) returning 0
UvPollStart(p) == [p EXCEPT !.poll = "started"]

\* execute_next_query. fail names the step that fails in this call ("none",
\* "send", "socket", "init", "start"). The result holds the context and the
\* statement given to the connection by PQsendQuery (0: none).
ExecuteNextQuery(p, running, fail) ==
    IF p.query_queue = <<>> \/ ~running
    THEN [p |-> ExecDone(p), stmt |-> 0]
    ELSE
      LET pop == PopQueue(p.query_queue)
          p1 == [p EXCEPT !.current_query = pop.cur, !.query_queue = pop.rest]
      IN IF fail = "send"
         THEN [p |-> HandleError(p1), stmt |-> 0]
         ELSE IF fail = "socket"
         THEN [p |-> HandleError(p1), stmt |-> pop.cur.id]
         ELSE IF ~p1.handle_initialized /\ fail = "init"
         THEN [p |-> HandleError(p1), stmt |-> pop.cur.id]
         ELSE
           LET p2 == IF ~p1.handle_initialized
                     THEN [p1 EXCEPT !.handle_initialized = TRUE, !.poll = "stopped"]
                     ELSE p1
           IN IF fail = "start"
              THEN [p |-> HandleError(p2), stmt |-> pop.cur.id]
              ELSE [p |-> UvPollStart(p2), stmt |-> pop.cur.id]

\* faulty variant of PollShutdown: the stopped server goes unnoticed
PollShutdownIgnored(p) == p

\* on_poll, lines 304-315: the server is no longer running
PollShutdown(p) ==
    Decrement([UvClose([p EXCEPT !.poll = "stopped"], "free") EXCEPT
                    !.handle_initialized = FALSE, !.is_executing = FALSE])

\* faulty variant of DrainResults: no result is given to the result_cb
DrainResultsNoCallback(results, hascb, calls) ==
    [calls |-> calls, failed |-> \E i \in 1 .. Len(results) : results[i] # "OK"]

\* on_poll, lines 338-359: the loop over PQgetResult. results holds the status of
\* each result the connection hands out. Gives the number of result_cb calls made
\* and whether a result with a status other than OK ended the loop.
RECURSIVE DrainResults(_, _, _)
DrainResults(results, hascb, calls) ==
    IF results = <<>>
    THEN [calls |-> calls, failed |-> FALSE]
    ELSE LET n == IF hascb THEN calls + 1 ELSE calls
         IN IF Head(results) # "OK"
            THEN [calls |-> n, failed |-> TRUE]
            ELSE DrainResults(Tail(results), hascb, n)

Repeat(x, n) == [i \in 1 .. n |-> x]

\* query_queue, lines 611-619: append to the tail of the queue
Enqueue(p, n, cb) ==
    [p EXCEPT !.query_queue = Append(p.query_queue, [id |-> n, cb |-> cb])]

\* the caller still owns the context: the bridge has neither freed it nor given
\* its handle to uv_close
Owned(p) == p.st = "live" /\ p.poll \notin {"closing", "closed"}

PgInit ==
    /\ pg = [c \in Ctx |-> NoCtx]
    /\ async_work = 0
    /\ server_running = TRUE
    /\ nid = [c \in Ctx |-> 1]
    /\ sent_log = [c \in Ctx |-> <<>>]
    /\ cb_log = [c \in Ctx |-> <<>>]
    /\ inflight = [c \in Ctx |-> {}]
    /\ pg_last = [op |-> "none", c |-> 0, ret |-> 0, outcome |-> "none"]

\* query_create on an open connection
QueryCreate(c) ==
    /\ pg[c].st = "none"
    /\ \A d \in Ctx : d < c => pg[d].st # "none"
    /\ pg' = [pg EXCEPT ![c] = [NoCtx EXCEPT !.st = "live", !.is_connected = TRUE]]
    /\ pg_last' = [op |-> "query_create", c |-> c, ret |-> 0, outcome |-> "none"]
    /\ UNCHANGED <<async_work, server_running, nid, sent_log, cb_log, inflight>>
    /\ UNCHANGED notPg

\* query_queue called from a request handler; cb: the statement has a result_cb
QueryQueue(c, cb) ==
    /\ Owned(pg[c])
    /\ nid[c] <= MaxStmts
    /\ pg' = [pg EXCEPT ![c] = Enqueue(pg[c], nid[c], cb)]
    /\ nid' = [nid EXCEPT ![c] = nid[c] + 1]
    /\ pg_last' = [op |-> "query_queue", c |-> c, ret |-> 0, outcome |-> "none"]
    /\ UNCHANGED <<async_work, server_running, sent_log, cb_log, inflight>>
    /\ UNCHANGED notPg

\* faulty variant of QueryExecuteRejected: an executing context is let through
RejectedOnlyDisconnected(p) == ~p.is_connected

\* query_execute, lines 632-642: the calls that return -1 on a non-null context
QueryExecuteRejected(p) == ~p.is_connected \/ p.is_executing

\* query_execute called from a request handler
QueryExecute(c, fail) ==
    /\ Owned(pg[c])
    /\ IF QueryExecuteRejected(pg[c])
       THEN /\ pg_last' = [op |-> "query_execute", c |-> c, ret |-> -1, outcome |-> "none"]
            /\ UNCHANGED <<pg, async_work, sent_log, inflight>>
       ELSE IF pg[c].query_queue = <<>>
       THEN /\ pg' = [pg EXCEPT ![c] = FreePgquery(pg[c])]
            /\ pg_last' = [op |-> "query_execute", c |-> c, ret |-> 0, outcome |-> "none"]
            /\ UNCHANGED <<async_work, sent_log, inflight>>
       ELSE LET p0 == [pg[c] EXCEPT !.incs = pg[c].incs + 1, !.is_executing = TRUE]
                r == ExecuteNextQuery(p0, server_running, fail)
            IN /\ pg' = [pg EXCEPT ![c] = r.p]
               /\ async_work' = async_work + 1 - (r.p.decs - pg[c].decs)
               /\ sent_log' = [sent_log EXCEPT ![c] =
                                IF r.stmt # 0 THEN Append(@, r.stmt) ELSE @]
               /\ inflight' = [inflight EXCEPT ![c] =
                                IF r.stmt # 0 THEN @ \cup {r.stmt} ELSE @]
               /\ pg_last' = [op |-> "query_execute", c |-> c, ret |-> 0, outcome |-> "none"]
    /\ UNCHANGED <<server_running, nid, cb_log>>
    /\ UNCHANGED notPg

\* on_poll: the readiness callback of context c.
\*   status: the poll status (0, or -1 for an error); consume: PQconsumeInput
\*   succeeds; busy: PQisBusy; results: the statuses of the results PQgetResult
\*   hands out; ucb: what the statement's result_cb does with the context
\*   ("nothing", "queue": one query_queue, "execute": query_execute);
\*   fail: the failing step of execute_next_query, if any.
\* pg_last.ret is the value query_execute returned to the result_cb, if called.
\* pg_last.outcome: "busy" when PQisBusy made the callback return, "failed" when
\* the loop over the results met a status other than OK, "drained" when it ran
\* to the end, "none" otherwise.
OnPoll(c, status, consume, busy, results, ucb, fail) ==
    /\ pg[c].st = "live"
    /\ pg[c].poll = "started"
    /\ LET p == pg[c]
       IN IF ~server_running
          THEN /\ pg' = [pg EXCEPT ![c] = PollShutdown(p)]
               /\ async_work' = async_work - (PollShutdown(p).decs - p.decs)
               /\ pg_last' = [op |-> "on_poll", c |-> c, ret |-> 0, outcome |-> "none"]
               /\ UNCHANGED <<nid, sent_log, cb_log, inflight>>
          ELSE IF status < 0 \/ ~consume
          THEN /\ pg' = [pg EXCEPT ![c] = HandleError(p)]
               /\ async_work' = async_work - (HandleError(p).decs - p.decs)
               /\ pg_last' = [op |-> "on_poll", c |-> c, ret |-> 0, outcome |-> "none"]
               /\ UNCHANGED <<nid, sent_log, cb_log, inflight>>
          ELSE IF busy
          THEN /\ pg_last' = [op |-> "on_poll", c |-> c, ret |-> 0, outcome |-> "busy"]
               /\ UNCHANGED <<pg, async_work, nid, sent_log, cb_log, inflight>>
          ELSE
            LET hascb == p.current_query # NoQuery /\ p.current_query.cb
                d == DrainResults(results, hascb, 0)
                queued == d.calls > 0 /\ ucb = "queue" /\ nid[c] <= MaxStmts
                rejected == d.calls > 0 /\ ucb = "execute"
                p1 == [p EXCEPT !.poll = "stopped"]
                p2 == IF queued THEN Enqueue(p1, nid[c], TRUE) ELSE p1
                p3 == [p2 EXCEPT !.current_query = NoQuery]
                r == IF d.failed
                     THEN [p |-> HandleError(p3), stmt |-> 0]
                     ELSE ExecuteNextQuery(p3, server_running, fail)
            IN /\ pg' = [pg EXCEPT ![c] = r.p]
               /\ async_work' = async_work - (r.p.decs - p.decs)
               /\ nid' = [nid EXCEPT ![c] = IF queued THEN @ + 1 ELSE @]
               /\ cb_log' = [cb_log EXCEPT ![c] = @ \o Repeat(p.current_query.id, d.calls)]
               /\ sent_log' = [sent_log EXCEPT ![c] =
                                IF r.stmt # 0 THEN Append(@, r.stmt) ELSE @]
               /\ inflight' = [inflight EXCEPT ![c] =
                                (IF d.failed THEN @ ELSE @ \ {p.current_query.id})
                                    \cup (IF r.stmt # 0 THEN {r.stmt} ELSE {})]
               /\ pg_last' = [op |-> "on_poll", c |-> c,
                              ret |-> IF rejected THEN -1 ELSE 0,
                              outcome |-> IF d.failed THEN "failed" ELSE "drained"]
    /\ UNCHANGED server_running
    /\ UNCHANGED notPg

\* the loop finishes closing the poll handle and runs the close callback given
\* to uv_close (on_poll_closed, or none)
OnPollClosed(c) ==
    /\ pg[c].poll = "closing"
    /\ pg' = [pg EXCEPT ![c] =
                IF pg[c].close_cb = "free"
                THEN FreePgquery([pg[c] EXCEPT !.poll = "closed"])
                ELSE [pg[c] EXCEPT !.poll = "closed"]]
    /\ pg_last' = [op |-> "on_poll_closed", c |-> c, ret |-> 0, outcome |-> "none"]
    /\ UNCHANGED <<async_work, server_running, nid, sent_log, cb_log, inflight>>
    /\ UNCHANGED notPg

\* the server begins to shut down: server_is_running() turns false
ServerStop ==
    /\ server_running
    /\ server_running' = FALSE
    /\ pg_last' = [op |-> "server_stop", c |-> 0, ret |-> 0, outcome |-> "none"]
    /\ UNCHANGED <<pg, async_work, nid, sent_log, cb_log, inflight>>
    /\ UNCHANGED notPg

\* the results of one statement: a result with an error status is the last one
ResultSeqs ==
    {r \in UNION {[1 .. n -> {"OK", "ERR"}] : n \in 1 .. MaxResults} :
        \A i \in 1 .. (Len(r) - 1) : r[i] = "OK"}

ExecFailures == {"none", "send", "socket", "init", "start"}

ResultCbActs == {"nothing", "queue", "execute"}

\* what a readiness callback can meet: a poll error, a failed PQconsumeInput, a
\* busy connection, or the results of the statement in flight
PollInputs ==
    {[status |-> -1, consume |-> TRUE, busy |-> FALSE, results |-> <<"OK">>,
      ucb |-> "nothing", fail |-> "none"],
     [status |-> 0, consume |-> FALSE, busy |-> FALSE, results |-> <<"OK">>,
      ucb |-> "nothing", fail |-> "none"],
     [status |-> 0, consume |-> TRUE, busy |-> TRUE, results |-> <<"OK">>,
      ucb |-> "nothing", fail |-> "none"]}
    \cup [status : {0}, consume : {TRUE}, busy : {FALSE}, results : ResultSeqs,
          ucb : ResultCbActs, fail : ExecFailures \ {"init"}]

-----------------------------------------------------------------------------
(* Session store. Strings are sequences of byte values (1..255). *)

\* a null pointer where a string is expected; differs from every byte string
NullStr == <<-1>>

PERCENT == 37

\* isalnum for the bytes of the ASCII range. For a byte above 127 the char is
\* negative and the call is outside what the C standard defines: hi is the
\* answer the build gives.
IsAlnum(c, hi) ==
    IF c > 127 THEN hi
    ELSE (c >= 48 /\ c <= 57) \/ (c >= 65 /\ c <= 90) \/ (c >= 97 /\ c <= 122)

\* faulty variant of IsUrlSafe: the control bytes pass as they are
IsUrlSafeControls(c, hi) == IsAlnum(c, hi) \/ c \in {45, 95, 46, 126} \/ c < 32

\* is_url_safe: alphanumeric, or one of - _ . ~
IsUrlSafe(c, hi) == IsAlnum(c, hi) \/ c \in {45, 95, 46, 126}

\* one digit of the "%02X" conversion
HexDigit(n) == IF n < 10 THEN 48 + n ELSE 55 + n

\* url_encode, the loop of lines 56-72 from index i (1-based) with out written
RECURSIVE UrlEncodeFrom(_, _, _, _)
UrlEncodeFrom(str, i, out, hi) ==
    IF i > Len(str) \/ ~(Len(out) < (Len(str) * 3 + 1) - 3)
    THEN out
    ELSE IF IsUrlSafe(str[i], hi)
         THEN UrlEncodeFrom(str, i + 1, Append(out, str[i]), hi)
         ELSE UrlEncodeFrom(str, i + 1,
                  out \o <<PERCENT, HexDigit(str[i] \div 16), HexDigit(str[i] % 16)>>,
                  hi)

\* url_encode
UrlEncode(str, hi) == UrlEncodeFrom(str, 1, <<>>, hi)

\* hex_to_int
HexToInt(c) ==
    IF c >= 48 /\ c <= 57 THEN c - 48
    ELSE IF c >= 65 /\ c <= 70 THEN c - 65 + 10
    ELSE IF c >= 97 /\ c <= 102 THEN c - 97 + 10
    ELSE -1

\* a char buffer read as a C string: it ends before the first zero byte
RECURSIVE CStr(_)
CStr(buf) ==
    IF buf = <<>> \/ Head(buf) = 0 THEN <<>>
    ELSE <<Head(buf)>> \o CStr(Tail(buf))

\* url_decode, the loop of lines 99-119 from index i (1-based)
RECURSIVE UrlDecodeFrom(_, _, _)
UrlDecodeFrom(str, i, out) ==
    IF i > Len(str) THEN out
    ELSE IF str[i] = PERCENT /\ i + 2 <= Len(str)
              /\ HexToInt(str[i + 1]) >= 0 /\ HexToInt(str[i + 2]) >= 0
         THEN UrlDecodeFrom(str, i + 3,
                  Append(out, (HexToInt(str[i + 1]) * 16 + HexToInt(str[i + 2])) % 256))
         ELSE UrlDecodeFrom(str, i + 1, Append(out, str[i]))

\* faulty variant of UrlDecode: the string is handed back as it is stored
UrlDecodeNothing(str) == CStr(str)

\* url_decode
UrlDecode(str) == CStr(UrlDecodeFrom(str, 1, <<>>))

\* strchr from position from: the index of the first byte b, or 0
IndexFrom(s, from, b) ==
    IF \E i \in from .. Len(s) : s[i] = b
    THEN CHOOSE i \in from .. Len(s) : s[i] = b /\ \A j \in from .. (i - 1) : s[j] # b
    ELSE 0

\* remove_key_from_data, the loop from search_start (0: a null pointer)
RECURSIVE RemoveKeyFrom(_, _, _)
RemoveKeyFrom(data, search_start, encoded_key) ==
    IF search_start = 0 \/ search_start > Len(data) THEN data
    ELSE
      LET key_end == IndexFrom(data, search_start, KV_DELIMITER)
      IN IF key_end = 0 THEN data
         ELSE IF key_end - search_start = Len(encoded_key)
                   /\ SubSeq(data, search_start, key_end - 1) = encoded_key
         THEN LET pair_end == IndexFrom(data, key_end + 1, PAIR_DELIMITER)
              IN IF pair_end # 0
                 THEN SubSeq(data, 1, search_start - 1)
                          \o SubSeq(data, pair_end + 1, Len(data))
                 ELSE SubSeq(data, 1, search_start - 1)
         ELSE LET next_pair == IndexFrom(data, search_start, PAIR_DELIMITER)
              IN RemoveKeyFrom(data, IF next_pair # 0 THEN next_pair + 1 ELSE 0,
                               encoded_key)

\* remove_key_from_data
RemoveKeyFromData(data, encoded_key) == RemoveKeyFrom(data, 1, encoded_key)

\* faulty variant of SizeLimitExceeded: the two separators are not counted
SizeLimitWithoutSeparators(data, encoded_key, encoded_value) ==
    (IF data = NullStr THEN 0 ELSE Len(data))
        + (Len(encoded_key) + Len(encoded_value)) > MAX_SESSION_DATA_SIZE

\* session_value_set, lines 396-408: the pair does not fit
SizeLimitExceeded(data, encoded_key, encoded_value) ==
    (IF data = NullStr THEN 0 ELSE Len(data))
        + (Len(encoded_key) + Len(encoded_value) + 2) > MAX_SESSION_DATA_SIZE

\* session_value_set: the payload after the call, and whether the pair was stored
SessionValueSet(data, key, value, hi) ==
    LET encoded_key == UrlEncode(key, hi)
        encoded_value == UrlEncode(value, hi)
    IN IF SizeLimitExceeded(data, encoded_key, encoded_value)
       THEN [data |-> data, stored |-> FALSE]
       ELSE LET d1 == IF data # NullStr /\ Len(data) > 0
                      THEN RemoveKeyFromData(data, encoded_key)
                      ELSE data
                d2 == IF d1 = NullStr THEN <<>> ELSE d1
            IN [data |-> d2 \o encoded_key \o <<KV_DELIMITER>>
                            \o encoded_value \o <<PAIR_DELIMITER>>,
                stored |-> TRUE]

\* session_value_get, the loop from search_start (0: a null pointer)
RECURSIVE ValueGetFrom(_, _, _)
ValueGetFrom(data, search_start, encoded_key) ==
    IF search_start = 0 \/ search_start > Len(data) THEN NullStr
    ELSE
      LET key_end == IndexFrom(data, search_start, KV_DELIMITER)
      IN IF key_end = 0 THEN NullStr
         ELSE IF key_end - search_start = Len(encoded_key)
                   /\ SubSeq(data, search_start, key_end - 1) = encoded_key
         THEN LET value_end == IndexFrom(data, key_end + 1, PAIR_DELIMITER)
                  last == IF value_end # 0 THEN value_end - 1 ELSE Len(data)
              IN UrlDecode(SubSeq(data, key_end + 1, last))
         ELSE LET next_pair == IndexFrom(data, search_start, PAIR_DELIMITER)
              IN ValueGetFrom(data, IF next_pair # 0 THEN next_pair + 1 ELSE 0,
                              encoded_key)

\* session_value_get
SessionValueGet(data, key, hi) ==
    IF data = NullStr \/ Len(data) = 0 THEN NullStr
    ELSE ValueGetFrom(data, 1, UrlEncode(key, hi))

\* faulty variant of SessionValueRemove: the key is looked up as given, not
\* percent-encoded
SessionValueRemoveRawKey(data, key, hi) ==
    IF data = NullStr THEN data
    ELSE RemoveKeyFromData(data, key)

\* session_value_remove
SessionValueRemove(data, key, hi) ==
    IF data = NullStr THEN data
    ELSE RemoveKeyFromData(data, UrlEncode(key, hi))

\* the charset of generate_session_id
Charset ==
    <<65, 66, 67, 68, 69, 70, 71, 72, 73, 74, 75, 76, 77,
      78, 79, 80, 81, 82, 83, 84, 85, 86, 87, 88, 89, 90,
      97, 98, 99, 100, 101, 102, 103, 104, 105, 106, 107, 108, 109,
      110, 111, 112, 113, 114, 115, 116, 117, 118, 119, 120, 121, 122,
      48, 49, 50, 51, 52, 53, 54, 55, 56, 57, 45, 95>>

\* bitwise exclusive or of two naturals
RECURSIVE Xor(_, _)
Xor(a, b) ==
    IF a = 0 THEN b
    ELSE IF b = 0 THEN a
    ELSE (((a % 2) + (b % 2)) % 2) + 2 * Xor(a \div 2, b \div 2)

\* getpid() of the worker process
Pid == 3

\* ((uintptr_t)&seed >> 3): the same at every call, as session_create is
\* reached through the same chain of calls
StackWord == 5

\* the state of the generator after i calls of rand() that follow srand(seed).
\* The generator belongs to the C library; a small linear congruential one
\* stands for it. All that matters is that the seed fixes the sequence.
RECURSIVE RandState(_, _)
RandState(seed, i) ==
    IF i = 0 THEN seed
    ELSE (RandState(seed, i - 1) * 75 + 74) % 65537

\* generate_session_id, lines 238-255: the entropy of the fallback method
FallbackEntropy(now, counter) ==
    LET seed == Xor(Xor(Xor(now, Pid), counter), StackWord)
    IN [i \in 1 .. SESSION_ID_LEN |-> RandState(seed, i) % 256]

\* get_random_bytes: the n-th read of /dev/urandom. The bytes of a read are
\* taken to differ from those of every earlier read.
UrandomEntropy(n) == [i \in 1 .. SESSION_ID_LEN |-> (n * 7 + i) % 256]

\* generate_session_id, lines 258-268: entropy bytes to identifier characters
IdOfEntropy(entropy) ==
    [i \in 1 .. SESSION_ID_LEN |-> Charset[(entropy[i] % Len(Charset)) + 1]]

\* a slot whose memory is zero
EmptySlot == [id |-> <<>>, expires |-> 0, data |-> NullStr]

\* session_free
SessionFreed(sess) == [sess EXCEPT !.id = <<>>, !.expires = 0, !.data = NullStr]

\* a sweep that frees nothing
CleanupExpiredKeepsAll(tab, now) == tab

\* cleanup_expired_sessions
CleanupExpiredSessions(tab, now) ==
    [i \in 1 .. Len(tab) |->
        IF tab[i].id # <<>> /\ tab[i].expires < now THEN SessionFreed(tab[i])
        ELSE tab[i]]

\* session_init: calloc of the initial table
SessionInitTable == [i \in 1 .. MAX_SESSIONS_DEFAULT |-> EmptySlot]

\* a resize that allocates a fresh zeroed table instead of extending the old one
ResizeSessionsZeroed(tab, new_capacity) ==
    IF new_capacity <= Len(tab) THEN tab
    ELSE [i \in 1 .. new_capacity |-> EmptySlot]

\* resize_sessions
ResizeSessions(tab, new_capacity) ==
    IF new_capacity <= Len(tab) THEN tab
    ELSE [i \in 1 .. new_capacity |-> IF i <= Len(tab) THEN tab[i] ELSE EmptySlot]

\* session_create, lines 288-303: the slot of the new session (1-based) in the
\* table tab, which is grown when no slot is empty
FirstEmpty(tab) ==
    IF \E i \in 1 .. Len(tab) : tab[i].id = <<>>
    THEN CHOOSE i \in 1 .. Len(tab) :
            tab[i].id = <<>> /\ \A j \in 1 .. (i - 1) : tab[j].id # <<>>
    ELSE 0

\* session_create: the table and the slot of the new session. The identifier
\* comes from entropy.
SessionCreated(tab0, now, max_age, entropy) ==
    LET tab1 == CleanupExpiredSessions(tab0, now)
        free == FirstEmpty(tab1)
        tab2 == IF free = 0 THEN ResizeSessions(tab1, Len(tab1) * 2) ELSE tab1
        slot == IF free = 0 THEN (Len(tab2) \div 2) + 1 ELSE free
    IN [tab |-> [tab2 EXCEPT ![slot] = [id |-> IdOfEntropy(entropy),
                                         expires |-> now + max_age,
                                         data |-> <<>>]],
        slot |-> slot]

\* session_find, lines 325-336: the first slot that holds id and has not
\* expired (0: none)
SessionFound(tab, id, now) ==
    IF \E i \in 1 .. Len(tab) :
            tab[i].id # <<>> /\ tab[i].id = id /\ tab[i].expires >= now
    THEN CHOOSE i \in 1 .. Len(tab) :
            /\ tab[i].id # <<>> /\ tab[i].id = id /\ tab[i].expires >= now
            /\ \A j \in 1 .. (i - 1) :
                   ~(tab[j].id # <<>> /\ tab[j].id = id /\ tab[j].expires >= now)
    ELSE 0

\* moved: the realloc of the last session_create gave the table a new address
NoOp == [op |-> "none", slot |-> 0, key |-> <<>>, val |-> <<>>, ret |-> 0, moved |-> FALSE]

SsInit ==
    /\ sessions = <<>>
    /\ ss_initialized = FALSE
    /\ ss_now = 1
    /\ id_counter = 0
    /\ urandom_reads = 0
    /\ ctype_hi = FALSE
    /\ ss_last = NoOp

\* session_create(max_age). rand_ok: get_random_bytes succeeds. moved: the
\* realloc of resize_sessions returns a block at another address and frees the
\* old one, which it may do whenever it is called to grow the table.
SessionCreate(max_age, rand_ok, moved) ==
    /\ id_counter + urandom_reads < MaxCreates
    /\ moved => /\ ss_initialized
                /\ FirstEmpty(CleanupExpiredSessions(sessions, ss_now)) = 0
    /\ LET tab0 == IF ss_initialized THEN sessions ELSE SessionInitTable
           entropy == IF rand_ok THEN UrandomEntropy(urandom_reads + 1)
                      ELSE FallbackEntropy(ss_now, id_counter + 1)
           r == SessionCreated(tab0, ss_now, max_age, entropy)
       IN /\ Len(r.tab) <= MaxSlots
          /\ sessions' = r.tab
          /\ ss_last' = [NoOp EXCEPT !.op = "session_create", !.slot = r.slot,
                                     !.ret = r.slot, !.moved = moved,
                                     \* observer: the number of slots the sweep freed
                                     !.val = <<Cardinality({i \in 1 .. Len(tab0) :
                                                  /\ tab0[i].id # <<>>
                                                  /\ tab0[i].expires < ss_now})>>]
    /\ ss_initialized' = TRUE
    /\ id_counter' = IF rand_ok THEN id_counter ELSE id_counter + 1
    /\ urandom_reads' = IF rand_ok THEN urandom_reads + 1 ELSE urandom_reads
    /\ UNCHANGED <<ss_now, ctype_hi>>
    /\ UNCHANGED notSs

\* session_find(id)
SessionFind(id) ==
    /\ ss_initialized
    /\ ss_last' = [NoOp EXCEPT !.op = "session_find", !.key = id,
                               !.ret = SessionFound(sessions, id, ss_now)]
    /\ UNCHANGED <<sessions, ss_initialized, ss_now, id_counter, urandom_reads, ctype_hi>>
    /\ UNCHANGED notSs

\* session_free on the session in slot s
SessionFree(s) ==
    /\ s \in 1 .. Len(sessions)
    /\ sessions[s].id # <<>>
    /\ sessions' = [sessions EXCEPT ![s] = SessionFreed(sessions[s])]
    /\ ss_last' = [NoOp EXCEPT !.op = "session_free", !.slot = s]
    /\ UNCHANGED <<ss_initialized, ss_now, id_counter, urandom_reads, ctype_hi>>
    /\ UNCHANGED notSs

\* session_value_set on the session in slot s
ValueSet(s, key, value) ==
    /\ s \in 1 .. Len(sessions)
    /\ sessions[s].id # <<>>
    /\ LET r == SessionValueSet(sessions[s].data, key, value, ctype_hi)
       IN /\ sessions' = [sessions EXCEPT ![s].data = r.data]
          /\ ss_last' = [op |-> "session_value_set", slot |-> s, key |-> key, moved |-> FALSE,
                         val |-> value, ret |-> IF r.stored THEN 1 ELSE 0]
    /\ UNCHANGED <<ss_initialized, ss_now, id_counter, urandom_reads, ctype_hi>>
    /\ UNCHANGED notSs

\* session_value_get on the session in slot s
ValueGet(s, key) ==
    /\ s \in 1 .. Len(sessions)
    /\ sessions[s].id # <<>>
    /\ ss_last' = [op |-> "session_value_get", slot |-> s, key |-> key, moved |-> FALSE,
                   val |-> SessionValueGet(sessions[s].data, key, ctype_hi),
                   ret |-> 0]
    /\ UNCHANGED <<sessions, ss_initialized, ss_now, id_counter, urandom_reads, ctype_hi>>
    /\ UNCHANGED notSs

\* session_value_remove on the session in slot s
ValueRemove(s, key) ==
    /\ s \in 1 .. Len(sessions)
    /\ sessions[s].id # <<>>
    /\ sessions' = [sessions EXCEPT ![s].data =
                        SessionValueRemove(sessions[s].data, key, ctype_hi)]
    /\ ss_last' = [NoOp EXCEPT !.op = "session_value_remove", !.slot = s, !.key = key,
                              \* observer: 1 when the payload changed
                              !.ret = IF SessionValueRemove(sessions[s].data, key,
                                                            ctype_hi) # sessions[s].data
                                      THEN 1 ELSE 0]
    /\ UNCHANGED <<ss_initialized, ss_now, id_counter, urandom_reads, ctype_hi>>
    /\ UNCHANGED notSs

\* a second of wall-clock time passes
SsTick ==
    /\ ss_now < MaxTime
    /\ ss_now' = ss_now + 1
    /\ ss_last' = [NoOp EXCEPT !.op = "tick"]
    /\ UNCHANGED <<sessions, ss_initialized, id_counter, urandom_reads, ctype_hi>>
    /\ UNCHANGED notSs

\* the identifiers a caller can hold: those in the table and those made from
\* the reads of /dev/urandom so far
KnownIds ==
    {sessions[i].id : i \in {j \in 1 .. Len(sessions) : sessions[j].id # <<>>}}
        \cup {IdOfEntropy(UrandomEntropy(n)) : n \in 1 .. urandom_reads}

\* keys of the model: "a", "ab", and the unit separator
Keys == {<<97>>, <<97, 98>>, <<KV_DELIMITER>>}

\* values of the model: "", "a", "%44", the two separators, a byte above 127,
\* "a%", and a run of "a" as long as the payload may get
Values ==
    {<<>>, <<97>>, <<PERCENT, 52, 52>>, <<PAIR_DELIMITER, KV_DELIMITER>>, <<233>>,
     <<97, PERCENT>>, [i \in 1 .. MAX_SESSION_DATA_SIZE |-> 97]}

MaxAges == {1, 2}

\* the session store after session_init and one session_create
SsDataInit ==
    /\ sessions = SessionCreated(SessionInitTable, 1, 2, UrandomEntropy(1)).tab
    /\ ss_initialized = TRUE
    /\ ss_now = 1
    /\ id_counter = 0
    /\ urandom_reads = 1
    /\ ctype_hi \in BOOLEAN
    /\ ss_last = [NoOp EXCEPT !.op = "session_create", !.slot = 1, !.ret = 1]

-----------------------------------------------------------------------------
(* Asynchronous file operations: src/src/fs/ecewo-fs.c                     *)

FsOps == 1 .. NumFsOps

\* the positions of a read: not started, waiting for the stat, open, read or
\* close callback, ended with the callback of the caller, or crashed
Outstanding == {"stat", "open", "read", "close"}

NoFsOp == [pc |-> "none", error |-> "none"]

\* the request was parsed and its handler runs: the arena exists, the response
\* writer holds the one reference to it
FsInit ==
    /\ arena = [alive |-> TRUE, refs |-> 1]
    /\ fs_ops = [o \in FsOps |-> NoFsOp]
    /\ fs_replied = FALSE

\* the arena after the response writer has dropped its reference: it is
\* destroyed when no reference is left
ArenaReleased(a) ==
    [alive |-> a.alive /\ a.refs > 1, refs |-> IF a.refs > 0 THEN a.refs - 1 ELSE 0]

\* what a callback does with its context block (req->data, an arena
\* allocation): with the arena alive it goes on to next; with the arena
\* destroyed the block is freed memory and the read of it is undefined
FsCallback(op, next, alive) ==
    IF alive THEN {next} ELSE {next, [op EXCEPT !.pc = "crashed"]}

\* fs_read_file(context, path, callback) called by the handler; queued: uv_fs_stat
\* accepted the request
FsReadFile(o, queued) ==
    /\ fs_ops[o].pc = "none"
    /\ arena.alive
    /\ ~fs_replied
    /\ fs_ops' = [fs_ops EXCEPT ![o] = IF queued THEN [pc |-> "stat", error |-> "none"]
                                       ELSE [pc |-> "done", error |-> "stat"]]
    /\ UNCHANGED <<arena, fs_replied>>
    /\ UNCHANGED notFs

\* read_stat_cb
ReadStatCb(o, ok) ==
    /\ fs_ops[o].pc = "stat"
    /\ \E r \in FsCallback(fs_ops[o],
                          IF ok THEN [pc |-> "open", error |-> "none"]
                          ELSE [pc |-> "done", error |-> "stat"], arena.alive) :
          fs_ops' = [fs_ops EXCEPT ![o] = r]
    /\ UNCHANGED <<arena, fs_replied>>
    /\ UNCHANGED notFs

\* read_open_cb; alloc_ok: arena_alloc of the buffer succeeds
ReadOpenCb(o, ok, alloc_ok) ==
    /\ fs_ops[o].pc = "open"
    /\ \E r \in FsCallback(fs_ops[o],
                          IF ~ok THEN [pc |-> "done", error |-> "open"]
                          ELSE IF ~alloc_ok THEN [pc |-> "done", error |-> "alloc"]
                          ELSE [pc |-> "read", error |-> "none"], arena.alive) :
          fs_ops' = [fs_ops EXCEPT ![o] = r]
    /\ UNCHANGED <<arena, fs_replied>>
    /\ UNCHANGED notFs

\* read_data_cb
ReadDataCb(o, ok) ==
    /\ fs_ops[o].pc = "read"
    /\ \E r \in FsCallback(fs_ops[o],
                          IF ok THEN [pc |-> "close", error |-> "none"]
                          ELSE [pc |-> "done", error |-> "read"], arena.alive) :
          fs_ops' = [fs_ops EXCEPT ![o] = r]
    /\ UNCHANGED <<arena, fs_replied>>
    /\ UNCHANGED notFs

\* read_close_cb
ReadCloseCb(o) ==
    /\ fs_ops[o].pc = "close"
    /\ \E r \in FsCallback(fs_ops[o], [pc |-> "done", error |-> "none"], arena.alive) :
          fs_ops' = [fs_ops EXCEPT ![o] = r]
    /\ UNCHANGED <<arena, fs_replied>>
    /\ UNCHANGED notFs

\* the response is written, by the handler or by the callback of an operation
\* that has ended: the writer drops its reference to the arena
ResponseWritten ==
    /\ ~fs_replied
    /\ arena.alive
    /\ fs_replied' = TRUE
    /\ arena' = ArenaReleased(arena)
    /\ UNCHANGED fs_ops
    /\ UNCHANGED notFs

NextFs ==
    \/ \E o \in FsOps, queued \in BOOLEAN : FsReadFile(o, queued)
    \/ \E o \in FsOps, ok \in BOOLEAN : ReadStatCb(o, ok)
    \/ \E o \in FsOps, ok \in BOOLEAN, alloc_ok \in BOOLEAN : ReadOpenCb(o, ok, alloc_ok)
    \/ \E o \in FsOps, ok \in BOOLEAN : ReadDataCb(o, ok)
    \/ \E o \in FsOps : ReadCloseCb(o)
    \/ ResponseWritten

-----------------------------------------------------------------------------
(* Static files: src/src/static/ecewo-static.c                             *)

STR_DOTDOT == <<46, 46>>
STR_SLASHSLASH == <<47, 47>>
STR_INDEX_HTML == <<105, 110, 100, 101, 120, 46, 104, 116, 109, 108>>
STR_PUBLIC == <<46, 47, 112, 117, 98, 108, 105, 99>>

\* strstr(s, sub) != NULL
Contains(s, sub) ==
    \E i \in 1 .. (Len(s) - Len(sub) + 1) : SubSeq(s, i, i + Len(sub) - 1) = sub

\* is_safe_path
IsSafePath(path) == ~Contains(path, STR_DOTDOT) /\ ~Contains(path, STR_SLASHSLASH)

\* snprintf(filepath, sizeof(filepath), ...): the text cut to the buffer
SnprintfFilepath(text) ==
    IF Len(text) < FILEPATH_SIZE THEN text ELSE SubSeq(text, 1, FILEPATH_SIZE - 1)

\* strncmp(url_path, ctx->mount_path, ctx->mount_len) == 0
MountMatches(url_path, ctx) ==
    /\ Len(url_path) >= Len(ctx.mount_path)
    /\ SubSeq(url_path, 1, Len(ctx.mount_path)) = ctx.mount_path

\* static_handler, lines 246-248: the path below the mount
RelPath(url_path, ctx) ==
    LET rel == SubSeq(url_path, Len(ctx.mount_path) + 1, Len(url_path))
    IN IF rel # <<>> /\ Head(rel) = 47 THEN Tail(rel) ELSE rel

\* static_handler, lines 256-267: the path of the file for rel_path
Filepath(ctx, rel_path) ==
    LET is_dir == rel_path = <<>> \/ rel_path[Len(rel_path)] = 47
    IN IF is_dir
       THEN IF Len(rel_path) = 0
            THEN SnprintfFilepath(ctx.dir_path \o <<47>> \o ctx.index_file)
            ELSE SnprintfFilepath(ctx.dir_path \o <<47>> \o rel_path \o ctx.index_file)
       ELSE SnprintfFilepath(ctx.dir_path \o <<47>> \o rel_path)

\* send_file(res, filepath): 403 for an unsafe path, else the read is started
SendFile(filepath) ==
    IF ~IsSafePath(filepath) THEN [status |-> 403, read |-> NullStr]
    ELSE [status |-> 0, read |-> filepath]

\* static_handler, the loop of lines 240-276 from the mount i (1-based)
RECURSIVE StaticHandlerFrom(_, _, _)
StaticHandlerFrom(contexts, i, url_path) ==
    IF i > Len(contexts) THEN [status |-> 404, read |-> NullStr]
    ELSE LET ctx == contexts[i]
             rel_path == RelPath(url_path, ctx)
             filepath == Filepath(ctx, rel_path)
         IN IF ~MountMatches(url_path, ctx)
            THEN StaticHandlerFrom(contexts, i + 1, url_path)
            ELSE IF ~ctx.dot_files /\ rel_path # <<>> /\ Head(rel_path) = 46
            THEN [status |-> 403, read |-> NullStr]
            ELSE IF ~IsSafePath(filepath) THEN [status |-> 403, read |-> NullStr]
            ELSE SendFile(filepath)

\* static_handler
StaticHandler(contexts, url_path) == StaticHandlerFrom(contexts, 1, url_path)

\* the mount of serve_static(mount_path, dir_path, options)
Mount(mount_path, dir_path, dot_files) ==
    [mount_path |-> mount_path, dir_path |-> dir_path, dot_files |-> dot_files,
     index_file |-> STR_INDEX_HTML]

NoRes == [status |-> 0, read |-> NullStr]

\* a program that called serve_static("/", "./public", NULL); no request yet
StInit ==
    /\ static_contexts = <<Mount(<<47>>, STR_PUBLIC, FALSE)>>
    /\ req_path = <<47>>
    /\ st_res = NoRes

\* the router hands the request to static_handler
StaticHandlerCall ==
    /\ st_res = NoRes
    /\ st_res' = StaticHandler(static_contexts, req_path)
    /\ UNCHANGED <<static_contexts, req_path>>
    /\ UNCHANGED notSt

\* on_file_read: the read has ended, with an error or with the data
OnFileRead(error) ==
    /\ st_res.status = 0
    /\ st_res.read # NullStr
    /\ st_res' = [st_res EXCEPT !.status = IF error THEN 404 ELSE 200]
    /\ UNCHANGED <<static_contexts, req_path>>
    /\ UNCHANGED notSt

-----------------------------------------------------------------------------
(* Cookies: src/src/cookie/ecewo-cookie.c                                  *)

\* string literals of the cookie codec, as bytes
STR_SET_COOKIE == <<83, 101, 116, 45, 67, 111, 111, 107, 105, 101>>
STR_MAX_AGE == <<59, 32, 77, 97, 120, 45, 65, 103, 101, 61>>
STR_EXPIRES == <<59, 32, 69, 120, 112, 105, 114, 101, 115, 61>>
STR_PATH == <<59, 32, 80, 97, 116, 104, 61>>
STR_SLASH == <<47>>
STR_DOMAIN == <<59, 32, 68, 111, 109, 97, 105, 110, 61>>
STR_SAME_SITE == <<59, 32, 83, 97, 109, 101, 83, 105, 116, 101, 61>>
STR_HTTP_ONLY == <<59, 32, 72, 116, 116, 112, 79, 110, 108, 121>>
STR_SECURE == <<59, 32, 83, 101, 99, 117, 114, 101>>
STR_STRICT == <<83, 116, 114, 105, 99, 116>>
STR_LAX == <<76, 97, 120>>
STR_NONE == <<78, 111, 110, 101>>
STR_GMT == <<32, 71, 77, 84>>
\* what strftime writes for the date of the first day of the epoch
STR_EPOCH_DAY == <<84, 104, 117, 44, 32, 48, 49, 32, 74, 97, 110, 32, 49, 57, 55, 48, 32>>

\* is_token_char: a printable ASCII byte that is no separator
IsTokenChar(c) ==
    /\ ~(c < 33 \/ c > 126)
    /\ c \notin {40, 41, 60, 62, 64, 44, 59, 58, 92, 34, 47, 91, 93, 63, 61, 123, 125,
                 32, 9}

\* is_valid_cookie_name
IsValidCookieName(name) ==
    /\ name # NullStr
    /\ name # <<>>
    /\ ~(Len(name) > MAX_COOKIE_NAME_LEN)
    /\ \A i \in 1 .. Len(name) : IsTokenChar(name[i])

\* isspace in the C locale
IsSpace(c) == c \in {32, 9, 10, 11, 12, 13}

\* trim_whitespace on the bytes start .. start + len - 1 of str: the new
\* start and length
RECURSIVE TrimLeading(_, _, _)
TrimLeading(str, start, len) ==
    IF len > 0 /\ IsSpace(str[start]) THEN TrimLeading(str, start + 1, len - 1)
    ELSE [start |-> start, len |-> len]

RECURSIVE TrimTrailing(_, _, _)
TrimTrailing(str, start, len) ==
    IF len > 0 /\ IsSpace(str[start + len - 1]) THEN TrimTrailing(str, start, len - 1)
    ELSE [start |-> start, len |-> len]

TrimWhitespace(str, start, len) ==
    LET a == TrimLeading(str, start, len)
    IN TrimTrailing(str, a.start, a.len)

\* needs_encoding
NeedsEncoding(c) == c < 33 \/ c > 126 \/ c \in {34, 44, 59, 92, 32}

\* url_encode_value, the loop of lines 168-180 over the bytes lo..hi (1-based):
\* every byte appends its own output, "%XX" or the byte itself, so the output
\* of a range is the output of its first half followed by that of its second
RECURSIVE UrlEncodeValueFrom(_, _, _)
UrlEncodeValueFrom(value, lo, hi) ==
    IF lo > hi THEN <<>>
    ELSE IF lo = hi
         THEN IF NeedsEncoding(value[lo])
              THEN <<PERCENT, HexDigit(value[lo] \div 16), HexDigit(value[lo] % 16)>>
              ELSE <<value[lo]>>
         ELSE LET mid == (lo + hi) \div 2
              IN UrlEncodeValueFrom(value, lo, mid) \o UrlEncodeValueFrom(value, mid + 1, hi)

\* url_encode_value
UrlEncodeValue(value) == UrlEncodeValueFrom(value, 1, Len(value))

\* url_decode_char: the byte of two hex digits, or -1
UrlDecodeChar(high, low) ==
    LET h == IF high >= 48 /\ high <= 57 THEN high - 48
             ELSE IF high >= 65 /\ high <= 70 THEN high - 65 + 10
             ELSE IF high >= 97 /\ high <= 102 THEN high - 97 + 10
             ELSE -1
        l == IF low >= 48 /\ low <= 57 THEN low - 48
             ELSE IF low >= 65 /\ low <= 70 THEN low - 65 + 10
             ELSE IF low >= 97 /\ low <= 102 THEN low - 97 + 10
             ELSE -1
    IN IF h = -1 \/ l = -1 THEN -1 ELSE h * 16 + l

\* url_decode of the cookie codec, the loop of lines 78-91 from index i
\* (1-based) of the src_len bytes src
RECURSIVE CookieUrlDecodeFrom(_, _, _)
CookieUrlDecodeFrom(src, i, decoded) ==
    IF i > Len(src) THEN decoded
    ELSE IF src[i] = PERCENT /\ i + 2 <= Len(src)
              /\ UrlDecodeChar(src[i + 1], src[i + 2]) >= 0
         THEN CookieUrlDecodeFrom(src, i + 3,
                  Append(decoded, UrlDecodeChar(src[i + 1], src[i + 2])))
         ELSE CookieUrlDecodeFrom(src, i + 1, Append(decoded, src[i]))

\* url_decode of the cookie codec: the caller reads the buffer as a C string
CookieUrlDecode(src) == CStr(CookieUrlDecodeFrom(src, 1, <<>>))

\* "%02d" of a number below 100
Fmt02(n) == <<48 + (n \div 10), 48 + (n % 10)>>

\* generate_expires: strftime "%a, %d %b %Y %H:%M:%S GMT" of now + max_age, for
\* a time on the first day of the epoch, where the clock of the model stays
GenerateExpires(now, max_age_seconds) ==
    LET t == now + max_age_seconds
    IN STR_EPOCH_DAY \o Fmt02((t \div 3600) % 24) \o <<58>>
          \o Fmt02((t \div 60) % 60) \o <<58>> \o Fmt02(t % 60) \o STR_GMT

\* no options: the Cookie pointer is NULL
NullOptions ==
    [null |-> TRUE, max_age |-> 0, path |-> NullStr, domain |-> NullStr,
     same_site |-> NullStr, http_only |-> FALSE, secure |-> FALSE]

\* cookie_set, lines 319-422: the text of the cookie, built attribute by
\* attribute
CookieVal(name, value, options, now) ==
    LET max_age == IF ~options.null /\ options.max_age >= 0 THEN options.max_age ELSE -1
        path == IF ~options.null /\ options.path # NullStr THEN options.path
                ELSE STR_SLASH
        domain == IF ~options.null THEN options.domain ELSE NullStr
        same_site == IF ~options.null THEN options.same_site ELSE NullStr
        http_only == IF options.null THEN FALSE ELSE options.http_only
        secure == IF options.null THEN FALSE ELSE options.secure
        v0 == name \o <<61>> \o UrlEncodeValue(value)
        v1 == IF max_age >= 0
              THEN v0 \o STR_MAX_AGE \o FormatU(max_age)
                      \o STR_EXPIRES \o GenerateExpires(now, max_age)
              ELSE v0
        v2 == v1 \o STR_PATH \o path
        v3 == IF domain # NullStr /\ Len(domain) > 0 THEN v2 \o STR_DOMAIN \o domain
              ELSE v2
        v4 == IF same_site # NullStr /\ Len(same_site) > 0
              THEN v3 \o STR_SAME_SITE \o same_site
              ELSE v3
        v5 == IF http_only THEN v4 \o STR_HTTP_ONLY ELSE v4
    IN IF secure THEN v5 \o STR_SECURE ELSE v5

\* faulty variant of CookieSetRefused: SameSite=None passes without Secure
CookieSetRefusedNoneUnchecked(name, value, options, now) ==
    \/ name = NullStr \/ value = NullStr
    \/ ~IsValidCookieName(name)
    \/ Len(value) > MAX_COOKIE_VALUE_LEN
    \/ ~options.null /\ options.max_age < -1
    \/ /\ ~options.null /\ options.same_site # NullStr /\ Len(options.same_site) > 0
       /\ options.same_site \notin {STR_STRICT, STR_LAX, STR_NONE}
    \/ Len(CookieVal(name, value, options, now)) > MAX_COOKIE_SIZE

\* cookie_set: the early returns (lines 292-317, 395-399, 424-435)
CookieSetRefused(name, value, options, now) ==
    \/ name = NullStr \/ value = NullStr
    \/ ~IsValidCookieName(name)
    \/ Len(value) > MAX_COOKIE_VALUE_LEN
    \/ ~options.null /\ options.max_age < -1
    \/ /\ ~options.null /\ options.same_site # NullStr /\ Len(options.same_site) > 0
       /\ options.same_site \notin {STR_STRICT, STR_LAX, STR_NONE}
    \/ ~options.null /\ options.same_site = STR_NONE /\ ~options.secure
    \/ Len(CookieVal(name, value, options, now)) > MAX_COOKIE_SIZE

\* set_header of the response: the header is added after those set before
SetHeader(headers, name, value) == Append(headers, [name |-> name, value |-> value])

\* cookie_set: the headers of the response after the call
CookieSet(headers, name, value, options, now) ==
    IF CookieSetRefused(name, value, options, now) THEN headers
    ELSE SetHeader(headers, STR_SET_COOKIE, CookieVal(name, value, options, now))

\* memchr(pos, '=', cookie_len): the index of the first '=' among the bytes
\* pos .. pos + cookie_len - 1 of h, or 0
EqIndex(h, pos, cookie_len) ==
    IF \E i \in pos .. (pos + cookie_len - 1) : h[i] = 61
    THEN CHOOSE i \in pos .. (pos + cookie_len - 1) :
            h[i] = 61 /\ \A j \in pos .. (i - 1) : h[j] # 61
    ELSE 0

\* cookie_get, lines 224-225: the position after the white space at pos
RECURSIVE SkipSpace(_, _)
SkipSpace(h, pos) ==
    IF pos <= Len(h) /\ IsSpace(h[pos]) THEN SkipSpace(h, pos + 1) ELSE pos

\* cookie_get, lines 257-276: the value of the cookie whose bytes are
\* pos .. pos + cookie_len - 1 and whose '=' is at eq
CookieValueAt(h, pos, cookie_len, eq) ==
    LET v == TrimWhitespace(h, eq + 1, cookie_len - (eq - pos) - 1)
        quoted == v.len >= 2 /\ h[v.start] = 34 /\ h[v.start + v.len - 1] = 34
        start == IF quoted THEN v.start + 1 ELSE v.start
        len == IF quoted THEN v.len - 2 ELSE v.len
    IN IF v.len = 0 THEN <<>>
       ELSE CookieUrlDecode(SubSeq(h, start, start + len - 1))

\* cookie_get, the loop of lines 221-280 from position pos (1-based; 0: the
\* pointer is NULL) of the Cookie header h
RECURSIVE CookieGetFrom(_, _, _, _)
CookieGetFrom(h, pos, cookie_count, name) ==
    IF pos = 0 \/ ~(cookie_count < MAX_COOKIES_PER_REQUEST) THEN NullStr
    ELSE LET p == SkipSpace(h, pos)
             cookie_end == IF p > Len(h) THEN 0 ELSE IndexFrom(h, p, 59)
             cookie_len == IF cookie_end # 0 THEN cookie_end - p ELSE Len(h) - p + 1
             next == IF cookie_end # 0 THEN cookie_end + 1 ELSE 0
             eq == EqIndex(h, p, cookie_len)
             n == TrimWhitespace(h, p, eq - p)
         IN IF p > Len(h) THEN NullStr
            ELSE IF cookie_len > MAX_COOKIE_SIZE
            THEN CookieGetFrom(h, next, cookie_count + 1, name)
            ELSE IF eq = 0 THEN CookieGetFrom(h, next, cookie_count + 1, name)
            ELSE IF n.len = Len(name) /\ SubSeq(h, n.start, n.start + n.len - 1) = name
            THEN CookieValueAt(h, p, cookie_len, eq)
            ELSE CookieGetFrom(h, next, cookie_count + 1, name)

\* cookie_get(req, name) on a request whose Cookie header is cookie_header
CookieGet(cookie_header, name) ==
    IF name = NullStr \/ ~IsValidCookieName(name) \/ cookie_header = NullStr
    THEN NullStr
    ELSE CookieGetFrom(cookie_header, 1, 0, name)

\* the arguments of a call of cookie_set
CookieArgs(name, value, options) == [name |-> name, value |-> value, options |-> options]

STR_SESSION == <<115, 101, 115, 115, 105, 111, 110>>
STR_THEME == <<116, 104, 101, 109, 101>>
STR_DARK == <<100, 97, 114, 107>>

\* op: the last call of the cookie codec; slot, id: the session whose cookie
\* the client holds in req_cookie
NoCk == [op |-> "none", slot |-> 0, id |-> <<>>]

\* a request without cookies and its response without headers; no cookie
\* call yet
CkInit ==
    /\ cookie_args = CookieArgs(STR_THEME, STR_DARK, NullOptions)
    /\ res_headers = <<>>
    /\ req_cookie = NullStr
    /\ ck_last = NoCk

\* a handler calls cookie_set(res, name, value, options) with its arguments
CookieSetCall ==
    /\ ck_last.op = "none"
    /\ res_headers' = CookieSet(res_headers, cookie_args.name, cookie_args.value,
                                cookie_args.options, ss_now)
    /\ ck_last' = [NoCk EXCEPT !.op = "cookie_set"]
    /\ UNCHANGED <<cookie_args, req_cookie>>
    /\ UNCHANGED notCk

\* the names a handler can pass: null, "", "theme", "session", "a b" with a
\* space, "a=b" with a separator, and one byte more than a name may have
CookieNames ==
    {NullStr, <<>>, STR_THEME, STR_SESSION, <<97, 32, 98>>, <<97, 61, 98>>,
     Repeat(97, MAX_COOKIE_NAME_LEN), Repeat(97, MAX_COOKIE_NAME_LEN + 1)}

\* the values a handler can pass: null, "", "dark", "a b;c" which needs
\* encoding, runs of "a" up to one byte more than a value may have, and a run
\* of spaces that is within the limit before encoding only
CookieValues ==
    {NullStr, <<>>, STR_DARK, <<97, 32, 98, 59, 99>>,
     Repeat(97, MAX_COOKIE_VALUE_LEN - 40), Repeat(97, MAX_COOKIE_VALUE_LEN),
     Repeat(97, MAX_COOKIE_VALUE_LEN + 1), Repeat(32, MAX_COOKIE_VALUE_LEN \div 2)}

\* the options a handler can pass: none, or any mix of these attributes
CookieOptions ==
    {NullOptions} \cup
    [null : {FALSE}, max_age : {-2, -1, 0, MaxCookieAge},
     path : {NullStr, <<47, 97, 112, 112>>}, domain : {NullStr, <<>>, <<120, 46, 105, 111>>},
     same_site : {NullStr, <<>>, STR_STRICT, STR_LAX, STR_NONE, <<108, 97, 120>>, <<68, 101, 102, 97, 117, 108, 116>>},
     http_only : BOOLEAN, secure : BOOLEAN]

\* a handler about to call cookie_set on a response that has no header yet or
\* one header
InitCookie ==
    /\ ClInit /\ PgInit /\ SsInit
    /\ cookie_args \in {CookieArgs(n, v, o) :
                            n \in CookieNames, v \in CookieValues, o \in CookieOptions}
    /\ res_headers \in {<<>>, <<[name |-> STR_SET_COOKIE, value |-> STR_THEME \o <<61>> \o STR_DARK]>>}
    /\ req_cookie = NullStr
    /\ ck_last = NoCk
    /\ StInit /\ FsInit

NextCookie == CookieSetCall

\* one call of cookie_set, for every name, value and options
SpecCookie == InitCookie /\ [][NextCookie]_vars

\* SESSION_COOKIE_DEFAULTS of the session store
SESSION_COOKIE_DEFAULTS ==
    [null |-> FALSE, max_age |-> 3600, path |-> STR_SLASH, domain |-> NullStr,
     same_site |-> STR_LAX, http_only |-> TRUE, secure |-> FALSE]

\* session_send(res, sess, options): the headers of the response after it
SessionSend(headers, sess, options, now) ==
    IF sess.id = <<>> THEN headers
    ELSE LET max_age == sess.expires - now
             opts == IF options.null THEN SESSION_COOKIE_DEFAULTS ELSE options
         IN IF max_age < 0 THEN headers
            ELSE CookieSet(headers, STR_SESSION, sess.id,
                           [opts EXCEPT !.max_age = max_age], now)

\* session_get(req): the slot of the session the request's cookie names (0:
\* NULL)
SessionGet(cookie_header, tab, now) ==
    LET sid == CookieGet(cookie_header, STR_SESSION)
    IN IF sid = NullStr THEN 0 ELSE SessionFound(tab, sid, now)

\* what a client sends back for a Set-Cookie header: the text before the
\* first ';'
CookiePair(set_cookie) ==
    IF IndexFrom(set_cookie, 1, 59) = 0 THEN set_cookie
    ELSE SubSeq(set_cookie, 1, IndexFrom(set_cookie, 1, 59) - 1)

\* the handler of a new request of a client that holds no cookie yet calls
\* session_send(res, sess, NULL) on the session in slot s; the client keeps the
\* cookie it receives
SessionSendCall(s) ==
    /\ s \in 1 .. Len(sessions)
    /\ ck_last.slot = 0
    /\ LET h == SessionSend(<<>>, sessions[s], NullOptions, ss_now)
       IN /\ res_headers' = h
          /\ req_cookie' = IF h = <<>> THEN req_cookie ELSE CookiePair(h[1].value)
          /\ ck_last' = IF h = <<>> THEN ck_last
                        ELSE [NoCk EXCEPT !.slot = s, !.id = sessions[s].id]
    /\ ss_last' = [NoOp EXCEPT !.op = "session_send", !.slot = s]
    /\ UNCHANGED <<sessions, ss_initialized, ss_now, id_counter, urandom_reads, ctype_hi>>
    /\ UNCHANGED cookie_args
    /\ UNCHANGED <<clVars, pgVars, argVars, stVars, fsVars>>

\* the handler of a new request that carries the client's cookie calls
\* session_get(req)
SessionGetCall ==
    /\ ss_initialized
    /\ req_cookie # NullStr
    /\ ss_last' = [NoOp EXCEPT !.op = "session_get",
                               !.key = CookieGet(req_cookie, STR_SESSION),
                               !.ret = SessionGet(req_cookie, sessions, ss_now)]
    /\ res_headers' = <<>>
    /\ UNCHANGED <<sessions, ss_initialized, ss_now, id_counter, urandom_reads, ctype_hi>>
    /\ UNCHANGED <<cookie_args, req_cookie, ck_last>>
    /\ UNCHANGED <<clVars, pgVars, argVars, stVars, fsVars>>

\* the segments of a request path: "a", "..", ".env", "", "static", "x.js"
PathSegments == {<<97>>, STR_DOTDOT, <<46, 101, 110, 118>>, <<>>, <<115, 116, 97, 116, 105, 99>>, <<120, 46, 106, 115>>}

\* "/" followed by the segments joined with "/"
RECURSIVE JoinPath(_)
JoinPath(segs) ==
    IF segs = <<>> THEN <<>>
    ELSE IF Len(segs) = 1 THEN Head(segs)
    ELSE Head(segs) \o <<47>> \o JoinPath(Tail(segs))

\* the request paths of up to MaxSegments segments
RequestPaths ==
    {<<47>> \o JoinPath(segs) :
        segs \in UNION {[1 .. n -> PathSegments] : n \in 0 .. MaxSegments}}

\* the mounts a program can register: at "/", "/static" or "/static/", over
\* "./public", "./public/" or "../www", with the dot_files option off or on
Mounts ==
    {Mount(mp, dp, df) : mp \in {<<47>>, <<47, 115, 116, 97, 116, 105, 99>>, <<47, 115, 116, 97, 116, 105, 99, 47>>},
                         dp \in {STR_PUBLIC, STR_PUBLIC \o <<47>>, <<46, 46, 47, 119, 119, 119>>},
                         df \in BOOLEAN}

\* a program that registered one mount, or a mount at "/static" before a mount
\* at "/", and a request of any path
InitStatic ==
    /\ ClInit /\ PgInit /\ SsInit /\ CkInit /\ FsInit
    /\ static_contexts \in
          {<<mt>> : mt \in Mounts}
             \cup {<<Mount(<<47, 115, 116, 97, 116, 105, 99>>, STR_PUBLIC, df), Mount(<<47>>, <<46, 47, 119, 119, 119>>, FALSE)>> :
                       df \in BOOLEAN}
    /\ req_path \in RequestPaths
    /\ st_res = NoRes

NextStatic ==
    \/ StaticHandlerCall
    \/ \E error \in BOOLEAN : OnFileRead(error)

\* one request to static_handler, for every mount and path
SpecStatic == InitStatic /\ [][NextStatic]_vars

-----------------------------------------------------------------------------
(* Initial state: no subsystem has been started *)

Init == ClInit /\ PgInit /\ SsInit /\ CkInit /\ StInit /\ FsInit

\* a program about to call cluster_init with a valid configuration
MainInputs == {MasterMain(n, respawn) : n \in 1 .. MaxWorkers, respawn \in BOOLEAN}

InitCluster == ClStart /\ main \in MainInputs /\ PgInit /\ SsInit /\ CkInit /\ StInit /\ FsInit

\* the words of a command line: an option, the sentinel, "1", "8080", "300"
ArgWords == {OptV, SENTINEL, <<49>>, <<56, 48, 56, 48>>, <<51, 48, 48>>}

\* the command lines of the program "app" with up to MaxArgc - 1 arguments
Argvs ==
    {<<Prog>> \o a : a \in UNION {[1 .. n -> ArgWords] : n \in 0 .. (MaxArgc - 1)}}

\* what main can hand to cluster_init: any configuration with any command
\* line, a null configuration, a null argv
MainInputsWide ==
    {[config_null |-> FALSE, cpus |-> n, port |-> p, respawn |-> FALSE,
      argv_null |-> FALSE, argv |-> a, exe_ok |-> e] :
        n \in 0 .. MaxWorkers, p \in {0, ConfigPort}, a \in Argvs, e \in BOOLEAN}
    \cup {[MasterMain(n, FALSE) EXCEPT !.config_null = TRUE, !.cpus = 0, !.port = 0,
                                       !.argv = a] :
            n \in {1}, a \in {<<Prog>>, <<Prog, SENTINEL, <<49>>, <<56, 48, 56, 48>>>>}}
    \cup {[MasterMain(n, FALSE) EXCEPT !.argv_null = TRUE, !.argv = NullArgv] :
            n \in 1 .. MaxWorkers}

InitClusterArgs == ClStart /\ main \in MainInputsWide /\ PgInit /\ SsInit /\ CkInit /\ StInit /\ FsInit

\* the call of cluster_init, for every configuration and command line
NextClusterArgs == \E ok \in [WorkerIds -> BOOLEAN] : ClusterInit(ok)

SpecClusterArgs == InitClusterArgs /\ [][NextClusterArgs]_vars

NextCluster ==
    \/ \E ok \in [WorkerIds -> BOOLEAN] : ClusterInit(ok)
    \/ WaitEnter
    \/ WaitCheck
    \/ \E outcome \in {"continue", "abort"} : UvRunReturn(outcome)
    \/ \E w \in WorkerIds, ok \in BOOLEAN : OnExit(w, ok)
    \/ OnSigterm
    \/ OnSigint
    \/ OnSigusr2
    \/ \E w \in WorkerIds, kind \in ExitKinds : WorkerExit(w, kind)
    \/ \E sig \in {SIGTERM, SIGINT, SIGUSR2} : SendSignal(sig)
    \/ TickWall

\* the master shutting down: the wait routine under the loop's clock
NextClusterWait ==
    \/ \E ok \in [WorkerIds -> BOOLEAN] : ClusterInit(ok)
    \/ WaitEnter
    \/ WaitCheck
    \/ \E outcome \in {"continue", "abort"} : UvRunReturn(outcome)
    \/ \E w \in WorkerIds, ok \in BOOLEAN : OnExit(w, ok)
    \/ OnSigterm
    \/ \E w \in WorkerIds, kind \in ExitKinds : WorkerExit(w, kind)
    \/ SendSignal(SIGTERM)
    \/ TickMono

\* the supervisor under the wall clock (respawn, throttle, restart)
SpecCluster == InitCluster /\ [][NextCluster]_vars

\* the supervisor under the loop's clock (the grace window of the wait routine)
SpecClusterWait == InitCluster /\ [][NextClusterWait]_vars

\* The loop dispatches every pending callback and the wait routine runs on; time
\* passes. Nothing obliges a worker to exit or a further signal to arrive.
FairSpecClusterWait ==
    /\ SpecClusterWait
    /\ WF_vars(WaitEnter)
    /\ WF_vars(WaitCheck)
    /\ WF_vars(\E outcome \in {"continue", "abort"} : UvRunReturn(outcome))
    /\ WF_vars(\E w \in WorkerIds, ok \in BOOLEAN : OnExit(w, ok))
    /\ WF_vars(OnSigterm)
    /\ WF_vars(TickMono)

\* a worker that the master has sent a signal ends
SignalledWorkerExit ==
    \E w \in WorkerIds, kind \in ExitKinds : sent[w] # {} /\ WorkerExit(w, kind)

\* the master in its wait routine with graceful restarts: every uv_spawn
\* succeeds, workers end on their own or when signalled, SIGUSR2 arrives at any
\* time, and the loop carries on after each iteration
NextRestart ==
    \/ ClusterInit([w \in WorkerIds |-> TRUE])
    \/ WaitEnter
    \/ WaitCheck
    \/ UvRunReturn("continue")
    \/ \E w \in WorkerIds : OnExit(w, TRUE)
    \/ OnSigusr2
    \/ \E w \in WorkerIds, kind \in ExitKinds : WorkerExit(w, kind)
    \/ SendSignal(SIGUSR2)

SpecRestart == InitCluster /\ [][NextRestart]_vars

\* The wait routine runs on and the loop finishes its iterations; an exit or a
\* signal that is pending over the iterations of the loop is dispatched in one
\* of them (the callbacks can run in the poll phase only, so they are enabled
\* on and off: strong fairness); every worker that was sent a signal exits.
\* Nothing obliges another worker to exit or a signal to come.
FairSpecRestart ==
    /\ SpecRestart
    /\ WF_vars(WaitEnter)
    /\ WF_vars(WaitCheck)
    /\ WF_vars(UvRunReturn("continue"))
    /\ \A w \in WorkerIds : SF_vars(OnExit(w, TRUE))
    /\ SF_vars(OnSigusr2)
    /\ WF_vars(SignalledWorkerExit)

-----------------------------------------------------------------------------
(* Claims on the cluster supervisor *)

\* C1: a worker of a master with respawn enabled, no shutdown and no graceful
\* restart in progress, that has exited non-zero three times within the
\* five-second window has its respawn_disabled latch set after the third exit
\* (and so is not spawned a fourth time).
C1_ThrottleTrips ==
    \A w \in WorkerIds :
        (/\ MasterRunning
         /\ Len(crash_times[w]) >= RESPAWN_THROTTLE_COUNT
         /\ crash_times[w][Len(crash_times[w])]
              - crash_times[w][Len(crash_times[w]) - RESPAWN_THROTTLE_COUNT + 1]
                < RESPAWN_THROTTLE_WINDOW)
        => (workers[w].respawn_disabled /\ proc[w].st = "none")

\* on_exit_cb has just processed the exit of worker w
ExitProcessed(w) ==
    /\ mpc = "run"
    /\ hs[w] = "active"
    /\ proc[w].st = "exited"
    /\ proc'[w] # proc[w]

\* C2: a worker exit processed after shutdown was requested, whatever the exit
\* status and the other flags, does not respawn the worker and records no
\* restart timestamp in its throttle ring.
C2_NoRespawnInShutdown ==
    [][\A w \in WorkerIds :
          (ExitProcessed(w) /\ cluster_state.shutdown_requested)
          => (/\ proc'[w].st = "none"
              /\ ~workers'[w].active
              /\ workers'[w].restart_count = workers[w].restart_count
              /\ workers'[w].restart_times = workers[w].restart_times)]_vars

\* C3: every worker that was active when the master accepted SIGUSR2 (and was
\* sent the terminate signal by it) is respawned with the same id and port when
\* its exit is reported, whatever its exit status, the respawn flag and its ring.
\* (uv_spawn is taken to succeed: ok is TRUE in the witnessing step.)
C3_GracefulRespawnsAll ==
    [][\A w \in WorkerIds :
          (/\ ExitProcessed(w)
           /\ ~cluster_state.shutdown_requested
           /\ SIGTERM \in sent[w])
          => (\/ (/\ workers'[w].active
                  /\ workers'[w].worker_id = workers[w].worker_id
                  /\ workers'[w].port = workers[w].port)
              \/ hs'[w] = "inited")]_vars

\* the exit of worker w about to be handled is a crash exit in a master with
\* respawn enabled and neither shutdown nor graceful restart in progress, and
\* it is not the third such exit of the worker within the throttle window
CrashExitBelowThrottle(w) ==
    /\ ExitProcessed(w)
    /\ cluster_state.respawn
    /\ ~cluster_state.shutdown_requested
    /\ ~cluster_state.graceful_restart_requested
    /\ proc[w].status # 0
    /\ ~workers[w].respawn_disabled
    /\ ~(/\ Len(crash_times[w]) >= RESPAWN_THROTTLE_COUNT - 1
         /\ wall - crash_times[w][Len(crash_times[w]) - (RESPAWN_THROTTLE_COUNT - 2)]
                < RESPAWN_THROTTLE_WINDOW)

\* C11 as stated: with respawn enabled, no shutdown, no graceful restart and the
\* throttle not tripped, a worker exit with a non-zero status is followed by one
\* respawn of the worker with the same id on its port, and the record is active
\* again.
C11_CrashRespawned ==
    [][\A w \in WorkerIds :
          CrashExitBelowThrottle(w)
          => (/\ workers'[w].active
              /\ proc'[w].st = "running"
              /\ workers'[w].worker_id = workers[w].worker_id
              /\ workers'[w].port = workers[w].port)]_vars

\* C11 amended: under the same conditions spawn_worker is called once for the
\* worker with its id and port; when uv_spawn succeeds the record is active
\* again with a new process, and when uv_spawn fails the record stays inactive
\* with no process (and nothing tries again).
C11_CrashRespawnAttempted ==
    [][\A w \in WorkerIds :
          CrashExitBelowThrottle(w)
          => (/\ workers'[w].worker_id = workers[w].worker_id
              /\ workers'[w].port = workers[w].port
              /\ hs'[w] \in {"active", "inited"}
              /\ hs'[w] = "active" =>
                    (workers'[w].active /\ proc'[w].st = "running" /\ sent'[w] = {})
              /\ hs'[w] = "inited" =>
                    (~workers'[w].active /\ proc'[w].st = "none"))]_vars

\* C11 witness: a worker that crashed at the present second runs again, on the
\* port the cluster was configured with
C11_Witness ==
    \E w \in WorkerIds :
        /\ MasterRunning
        /\ cluster_state.respawn
        /\ ~cluster_state.shutdown_requested
        /\ Len(crash_times[w]) >= 1
        /\ crash_times[w][Len(crash_times[w])] = wall
        /\ workers[w].active /\ proc[w].st = "running"
        /\ workers[w].worker_id = w /\ workers[w].port = cluster_state.base_port

\* a step in which cluster_init is called and returns
ClusterInitCalled == mpc = "start" /\ mpc' # "start"

\* C17: cluster_init called with a null configuration, a worker count of 0, a
\* port of 0 or a null argv returns false and changes nothing: the cluster
\* state, the worker records and the handles are as before, no worker process
\* exists, no signal handler is registered, cluster_is_master and
\* cluster_is_worker are false and cluster_get_port is 0.
C17_InvalidConfigRefused ==
    [][(/\ ClusterInitCalled
        /\ (main.config_null \/ main.cpus = 0 \/ main.port = 0 \/ main.argv_null))
       => (/\ mpc' = "init_failed"
           /\ cluster_state' = cluster_state
           /\ workers' = workers /\ hs' = hs /\ proc' = proc
           /\ \A i \in WorkerIds : proc'[i].st = "none" /\ hs'[i] = "uninit"
           /\ ~cluster_state'.signals
           /\ ~cluster_state'.initialized
           /\ ~ClusterIsMaster(cluster_state')
           /\ ~ClusterIsWorker(cluster_state')
           /\ ClusterGetPort(cluster_state') = 0)]_vars

\* C17 witness: cluster_init has refused a configuration with a port of 0 and
\* the largest worker count, given a command line that carries a worker triple
C17_Witness ==
    /\ mpc = "init_failed"
    /\ ~main.config_null /\ ~main.argv_null
    /\ main.port = 0 /\ main.cpus = MaxWorkers
    /\ Len(main.argv) = 4 /\ main.argv[2] = SENTINEL
    /\ ~cluster_state.initialized /\ ~cluster_state.signals
    /\ ClusterGetPort(cluster_state) = 0

\* str is the decimal numeral of a number below limit
NumeralBelow(str, limit) == FormatU(Atoi(str)) = str /\ Atoi(str) < limit

RECURSIVE StripTriplesFrom(_, _)
StripTriplesFrom(argv, i) ==
    IF i > Len(argv) THEN <<>>
    ELSE IF argv[i] = SENTINEL /\ i + 2 <= Len(argv) THEN StripTriplesFrom(argv, i + 3)
    ELSE <<argv[i]>> \o StripTriplesFrom(argv, i + 1)

\* C19: the argv a worker (id, port) is started with is the resolved executable
\* path, then every argument of the master's argv[1..] that is not part of a
\* triple, in the original order and unchanged, then the triple
\* "--cluster-worker" id port as its last three elements; building the argv
\* again from that argv gives the same argv.
C19_WorkerArgv ==
    \A w \in WorkerIds :
        proc[w].st = "running" =>
            /\ proc[w].args =
                    <<cluster_state.exe_path>> \o StripTriplesFrom(main.argv, 2)
                        \o <<SENTINEL, FormatU(w), FormatU(main.port)>>
            /\ BuildWorkerArgs([cluster_state EXCEPT !.original_argv = proc[w].args],
                               w, main.port) = proc[w].args

\* C20: a master configured with N workers and base port P spawns exactly N
\* workers with ids 0..N-1: cluster_init calls spawn_worker once for each id
\* below N and for no other, and in every state of the initialised master
\* worker record i has worker_id = i and port = P and the process of worker i,
\* started by cluster_init or by a respawn, was given the id i and the port P
\* in its argv; there is no process for an id of N or above.
C20_WorkersKeepIdAndPort ==
    /\ [](ClusterIsMaster(cluster_state) =>
            \A i \in WorkerIds :
                IF i < main.cpus
                THEN /\ workers[i].worker_id = i
                     /\ workers[i].port = main.port
                     /\ hs[i] # "uninit"
                     /\ proc[i].st # "none" =>
                            /\ Len(proc[i].args) >= 4
                            /\ SubSeq(proc[i].args, Len(proc[i].args) - 2,
                                      Len(proc[i].args))
                                  = <<SENTINEL, FormatU(i), FormatU(main.port)>>
                ELSE proc[i].st = "none" /\ hs[i] = "uninit")
    /\ [][\A i \in WorkerIds :
            (proc'[i].st = "running" /\ proc[i].st # "running") =>
                /\ i < main.cpus
                /\ workers'[i].worker_id = i /\ workers'[i].port = main.port
                /\ workers'[i].active
                /\ SubSeq(proc'[i].args, Len(proc'[i].args) - 2, Len(proc'[i].args))
                      = <<SENTINEL, FormatU(i), FormatU(main.port)>>]_vars

\* C20 witness: in a master of MaxWorkers workers the last worker runs again
\* after a crash, and every worker runs
C20_Witness ==
    /\ ClusterIsMaster(cluster_state)
    /\ main.cpus = MaxWorkers
    /\ Len(crash_times[MaxWorkers - 1]) >= 1
    /\ \A i \in WorkerIds : proc[i].st = "running" /\ workers[i].active
    /\ workers[MaxWorkers - 1].worker_id = MaxWorkers - 1

\* C21: in the initialisation of a master a failed spawn does not keep the
\* workers after it from being spawned, and cluster_init aborts (returns
\* false, cluster not initialised) exactly when more than half of the
\* configured workers have failed to spawn: it returns true, with spawn_worker
\* called for every configured worker, exactly when the failures are at most
\* half of them; when it aborts, every worker before the failure that tipped
\* the count was tried.
C21_AbortOnMajorityFailure ==
    [][(/\ ClusterInitCalled
        /\ ~(main.config_null \/ main.cpus = 0 \/ main.port = 0 \/ main.argv_null)
        /\ \A j \in 2 .. (Len(main.argv) - 2) : main.argv[j] # SENTINEL)
       => LET n == main.cpus
              failed == Cardinality({i \in WorkerIds : hs'[i] = "inited"})
              tried == {i \in WorkerIds : hs'[i] # "uninit"}
          IN /\ mpc' \in {"master", "init_failed"}
             /\ (mpc' = "init_failed") <=> (2 * failed > n)
             /\ (mpc' = "master") <=> cluster_state'.initialized
             /\ mpc' = "master" => tried = {i \in WorkerIds : i < n}
             /\ \A i \in tried : i < n /\ \A k \in 0 .. i : k \in tried
             /\ \A i \in tried :
                    hs'[i] = "active" <=> (proc'[i].st = "running" /\ workers'[i].active)]_vars

\* C21 witness: cluster_init returned true for a master whose first spawn
\* failed and whose last spawn succeeded
C21_Witness ==
    /\ mpc = "master"
    /\ main.cpus = MaxWorkers
    /\ hs[0] = "inited" /\ ~workers[0].active
    /\ hs[MaxWorkers - 1] = "active" /\ proc[MaxWorkers - 1].st = "running"
    /\ cluster_state.initialized

\* C22: the first SIGINT or SIGTERM the master handles sets shutdown_requested
\* and sends the terminate signal to exactly the workers that are active at
\* that moment; a later SIGINT or SIGTERM sends no signal and changes no state
\* of the cluster; shutdown_requested is never cleared.
C22_FirstSignalShutsDown ==
    /\ [][(\E sig \in {SIGTERM, SIGINT} : sig \in sigpend /\ sig \notin sigpend')
          => IF ~cluster_state.shutdown_requested
             THEN /\ cluster_state' =
                        [cluster_state EXCEPT !.shutdown_requested = TRUE]
                  /\ \A i \in WorkerIds :
                        sent'[i] = IF i < cluster_state.worker_count
                                        /\ workers[i].active
                                   THEN sent[i] \cup {SIGTERM}
                                   ELSE sent[i]
                  /\ workers' = workers /\ proc' = proc /\ hs' = hs
             ELSE /\ cluster_state' = cluster_state
                  /\ sent' = sent
                  /\ workers' = workers /\ proc' = proc /\ hs' = hs]_vars
    /\ [][cluster_state.shutdown_requested
            => cluster_state'.shutdown_requested]_vars

\* C22 witness: shutdown was requested in a master of MaxWorkers workers; one
\* active worker was sent the terminate signal and nothing was sent to a
\* worker that was not active
C22_Witness ==
    /\ cluster_state.shutdown_requested
    /\ main.cpus = MaxWorkers
    /\ \E i, j \in WorkerIds :
          /\ workers[i].active /\ sent[i] = {SIGTERM}
          /\ ~workers[j].active /\ sent[j] = {}

\* C30: during a graceful restart (no shutdown requested) the graceful-restart
\* flag stays set as long as a worker that was sent the terminate signal has
\* not been replaced, and the step that clears it leaves every worker record
\* active with a process that was started after the signal.
C30_RestartFlagHeld ==
    /\ []((/\ cluster_state.is_master
           /\ ~cluster_state.shutdown_requested
           /\ \E w \in WorkerIds :
                 w < cluster_state.worker_count /\ SIGTERM \in sent[w])
          => cluster_state.graceful_restart_requested)
    /\ [][(/\ cluster_state.graceful_restart_requested
            /\ ~cluster_state'.graceful_restart_requested
            /\ ~cluster_state.shutdown_requested)
           => \A w \in WorkerIds :
                w < cluster_state.worker_count =>
                    workers'[w].active /\ SIGTERM \notin sent'[w]]_vars

\* C10: once shutdown has been requested, cluster_wait_workers returns (the
\* master process ending by an abort is not counted against the claim).
C10_WaitReturns ==
    (mpc \in {"check", "run"} /\ cluster_state.shutdown_requested)
        ~> (mpc \in {"returned", "aborted"})

-----------------------------------------------------------------------------
(* Specification of the database bridge *)

NextPg ==
    \/ \E c \in Ctx : QueryCreate(c)
    \/ \E c \in Ctx, cb \in BOOLEAN : QueryQueue(c, cb)
    \/ \E c \in Ctx, fail \in ExecFailures : QueryExecute(c, fail)
    \/ \E c \in Ctx, in \in PollInputs :
            OnPoll(c, in.status, in.consume, in.busy, in.results, in.ucb, in.fail)
    \/ \E c \in Ctx : OnPollClosed(c)
    \/ ServerStop

SpecPg == Init /\ [][NextPg]_vars

\* what a readiness callback can meet while the server runs and the connection
\* works: a busy connection, or the results of the statement in flight
BusyInput ==
    [status |-> 0, consume |-> TRUE, busy |-> TRUE, results |-> <<"OK">>,
     ucb |-> "nothing", fail |-> "none"]

ReadyInputs ==
    [status : {0}, consume : {TRUE}, busy : {FALSE}, results : ResultSeqs,
     ucb : ResultCbActs, fail : {"none"}]

\* the readiness callback of c finds the connection not busy
OnPollReady(c) ==
    \E in \in ReadyInputs :
        OnPoll(c, in.status, in.consume, in.busy, in.results, in.ucb, in.fail)

\* the bridge with a server that keeps running and a connection on which
\* sending, the socket and the handle never fail; every statement is queued
\* with a result_cb
NextPgRun ==
    \/ \E c \in Ctx : QueryCreate(c)
    \/ \E c \in Ctx : QueryQueue(c, TRUE)
    \/ \E c \in Ctx : QueryExecute(c, "none")
    \/ \E c \in Ctx :
            OnPoll(c, BusyInput.status, BusyInput.consume, BusyInput.busy,
                   BusyInput.results, BusyInput.ucb, BusyInput.fail)
    \/ \E c \in Ctx : OnPollReady(c)
    \/ \E c \in Ctx : OnPollClosed(c)

SpecPgRun == Init /\ [][NextPgRun]_vars

\* the loop runs the readiness callback of an armed handle, the connection
\* stops being busy for every statement, and the loop runs the close callback
\* of a closing handle
FairSpecPgRun ==
    /\ SpecPgRun
    /\ \A c \in Ctx : WF_vars(OnPollReady(c))
    /\ \A c \in Ctx : WF_vars(OnPollClosed(c))

-----------------------------------------------------------------------------
(* Properties of the database bridge *)

\* the bridge has released the context: freed it, or given its handle to uv_close
Terminated(p) == p.st = "freed" \/ p.poll \in {"closing", "closed"}

\* C4: for every context the result callbacks run in the order in which their
\* statements were queued, also for statements queued while the context is
\* executing: the statements are sent in queue order with none left out, a
\* callback only runs for a statement that was sent, no callback of an earlier
\* statement runs after one of a later statement, and at most one statement is
\* in flight on the connection.
C4_CallbacksInQueueOrder ==
    \A c \in Ctx :
        /\ sent_log[c] = [i \in 1 .. Len(sent_log[c]) |-> i]
        /\ \A i \in 1 .. Len(cb_log[c]) :
              \E k \in 1 .. Len(sent_log[c]) : sent_log[c][k] = cb_log[c][i]
        /\ \A i, j \in 1 .. Len(cb_log[c]) : i < j => cb_log[c][i] <= cb_log[c][j]
        /\ Cardinality(inflight[c]) <= 1

\* C4 witness: a context delivered two results of its first statement and then
\* a result of a statement that was queued by the first statement's callback
C4_Witness ==
    \E c \in Ctx :
        /\ Len(cb_log[c]) >= 3
        /\ cb_log[c][1] = 1 /\ cb_log[c][2] = 1
        /\ cb_log[c][Len(cb_log[c])] = 2
        /\ pg_last.op = "on_poll"

\* C5: the work counter is incremented once for a context, by the query_execute
\* that starts a non-empty queue, and decremented once when the context
\* terminates, whatever the path; a rejected query_execute and a query_execute
\* on an empty queue leave it alone; it never goes below zero.
C5_WorkCounterBalanced ==
    /\ [](/\ async_work >= 0
          /\ async_work = Cardinality({c \in Ctx : pg[c].incs > pg[c].decs})
          /\ \A c \in Ctx :
                /\ pg[c].incs <= 1
                /\ pg[c].decs <= pg[c].incs
                /\ pg[c].is_executing <=> (pg[c].incs = 1 /\ pg[c].decs = 0)
                /\ Terminated(pg[c]) => pg[c].decs = pg[c].incs)
    /\ [][\A c \in Ctx :
            /\ (pg'[c].incs # pg[c].incs) =>
                    /\ pg_last' = [op |-> "query_execute", c |-> c, ret |-> 0, outcome |-> "none"]
                    /\ pg[c].query_queue # <<>>
                    /\ pg'[c].incs = pg[c].incs + 1
                    /\ async_work' = async_work + 1 - (pg'[c].decs - pg[c].decs)
            /\ (pg_last'.op = "query_execute" /\ pg_last'.c = c
                    /\ (pg_last'.ret = -1 \/ pg[c].query_queue = <<>>)) =>
                    /\ async_work' = async_work
                    /\ pg'[c].incs = pg[c].incs /\ pg'[c].decs = pg[c].decs
            /\ (pg_last'.op = "on_poll" /\ pg_last'.c = c /\ pg_last'.ret = -1) =>
                    pg'[c].incs = pg[c].incs]_vars

\* C5 witness: one context was ended by an error and freed, the other by the
\* stopped server, and the counter is back at zero
C5_Witness ==
    /\ NumCtx >= 2
    /\ pg[1].st = "freed" /\ pg[1].error_message
    /\ pg[1].incs = 1 /\ pg[1].decs = 1
    /\ ~server_running /\ pg[2].poll = "closing"
    /\ pg[2].incs = 1 /\ pg[2].decs = 1
    /\ async_work = 0

\* C6: when the server has stopped running while a context is executing, the
\* context's next readiness callback stops and closes the poll handle and
\* decrements the work counter once, runs no result callback and sends nothing;
\* and once the handle is closing nothing of the context is sent or called back
\* and the counter is not decremented for it again.
C6_ShutdownAtNextCallback ==
    [][\A c \in Ctx :
        /\ (pg_last'.op = "on_poll" /\ pg_last'.c = c
                /\ ~server_running /\ pg[c].is_executing) =>
              /\ pg'[c].poll = "closing" /\ pg'[c].close_cb = "free"
              /\ ~pg'[c].is_executing
              /\ pg'[c].decs = pg[c].decs + 1
              /\ async_work' = async_work - 1
              /\ cb_log'[c] = cb_log[c]
              /\ sent_log'[c] = sent_log[c]
        /\ pg[c].poll \in {"closing", "closed"} =>
              /\ sent_log'[c] = sent_log[c]
              /\ cb_log'[c] = cb_log[c]
              /\ pg'[c].decs = pg[c].decs]_vars

\* C6 witness: a readiness callback has just met the stopped server while a
\* statement was in flight and another one was still queued
C6_Witness ==
    /\ ~server_running
    /\ pg_last.op = "on_poll"
    /\ pg[pg_last.c].poll = "closing"
    /\ pg[pg_last.c].decs = 1
    /\ pg[pg_last.c].query_queue # <<>>
    /\ inflight[pg_last.c] # {}

-----------------------------------------------------------------------------
(* Specifications of the session store *)

NextSession ==
    \/ \E max_age \in MaxAges, rand_ok \in BOOLEAN, moved \in BOOLEAN :
            SessionCreate(max_age, rand_ok, moved)
    \/ \E id \in KnownIds : SessionFind(id)
    \/ \E s \in 1 .. MaxSlots : SessionFree(s)
    \/ SsTick

SpecSession == Init /\ [][NextSession]_vars

\* the handler of one request starts file reads; the response is written at
\* any time
SpecFs == Init /\ [][NextFs]_vars

NextSessionCookie ==
    \/ \E max_age \in MaxAges, rand_ok \in BOOLEAN, moved \in BOOLEAN :
            SessionCreate(max_age, rand_ok, moved)
    \/ \E s \in 1 .. MaxSlots : SessionFree(s)
    \/ \E s \in 1 .. MaxSlots : SessionSendCall(s)
    \/ SessionGetCall
    \/ SsTick

\* sessions created, sent as cookies, freed, expiring and looked up from the
\* cookie of a request
SpecSessionCookie == Init /\ [][NextSessionCookie]_vars

NextSessionData ==
    \/ \E s \in 1 .. MaxSlots, key \in Keys, value \in Values : ValueSet(s, key, value)
    \/ \E s \in 1 .. MaxSlots, key \in Keys : ValueGet(s, key)
    \/ \E s \in 1 .. MaxSlots, key \in Keys : ValueRemove(s, key)

InitSessionData == ClInit /\ PgInit /\ SsDataInit /\ CkInit /\ StInit /\ FsInit

SpecSessionData == InitSessionData /\ [][NextSessionData]_vars

\* C12: once a context has failed (handle_error ran for a send failure, a
\* socket or handle failure, a poll error, a failed PQconsumeInput or a result
\* whose status is not OK), the statements that were queued and not yet sent are
\* dropped: its queue is empty and it is no longer executing, nothing is sent
\* to its connection and no callback of it runs from then on, no statement was
\* sent twice and every callback that ran belongs to a statement that was sent.
C12_FailureDropsQueue ==
    /\ [](\A c \in Ctx :
            pg[c].error_message =>
                /\ pg[c].query_queue = <<>>
                /\ pg[c].current_query = NoQuery
                /\ ~pg[c].is_executing
                /\ Terminated(pg[c])
                /\ \A i, j \in 1 .. Len(sent_log[c]) :
                        i # j => sent_log[c][i] # sent_log[c][j]
                /\ \A i \in 1 .. Len(cb_log[c]) :
                        \E k \in 1 .. Len(sent_log[c]) : sent_log[c][k] = cb_log[c][i])
    /\ [][\A c \in Ctx :
            pg[c].error_message =>
                /\ sent_log'[c] = sent_log[c]
                /\ cb_log'[c] = cb_log[c]
                /\ inflight'[c] = inflight[c]
                /\ pg'[c].query_queue = <<>>]_vars

\* C13: query_execute called on a context that is executing returns -1 and
\* leaves the context as it was: the pending queue, the statement in flight,
\* the readiness handle and every other field of the context, the
\* outstanding-work counter, and what was sent to the connection.
C13_RejectedExecuteChangesNothing ==
    [][\A c \in Ctx :
          (pg_last'.op = "query_execute" /\ pg_last'.c = c /\ pg[c].is_executing)
          => (/\ pg_last'.ret = -1
              /\ pg'[c] = pg[c]
              /\ async_work' = async_work
              /\ sent_log' = sent_log
              /\ cb_log' = cb_log
              /\ inflight' = inflight)]_vars

\* C13 witness: query_execute has just returned -1 for a context that waits for
\* the result of its first statement with a second one pending
C13_Witness ==
    \E c \in Ctx :
        /\ pg_last = [op |-> "query_execute", c |-> c, ret |-> -1, outcome |-> "none"]
        /\ pg[c].is_executing
        /\ pg[c].poll = "started"
        /\ pg[c].current_query.id = 1
        /\ Len(pg[c].query_queue) = 1
        /\ async_work >= 1

\* C14: query_execute returns 0 only when execution has started (the queue was
\* not empty, the first statement was given to the connection and is the
\* statement in flight, the readiness handle is armed), and -1 on every
\* failure, a failure to send or to arm the first statement included.
C14_ZeroMeansStarted ==
    [][\A c \in Ctx :
          (pg_last'.op = "query_execute" /\ pg_last'.c = c /\ pg_last'.ret = 0)
          => (/\ pg[c].query_queue # <<>>
              /\ pg'[c].st = "live"
              /\ pg'[c].is_executing
              /\ pg'[c].current_query = Head(pg[c].query_queue)
              /\ sent_log'[c] = Append(sent_log[c], Head(pg[c].query_queue).id)
              /\ pg'[c].handle_initialized
              /\ pg'[c].poll = "started")]_vars

\* C12 witness: a context whose first statement got a result with an error
\* status was freed while its second statement had been queued and never sent
C12_Witness ==
    \E c \in Ctx :
        /\ pg[c].error_message
        /\ pg[c].st = "freed"
        /\ nid[c] = 3
        /\ sent_log[c] = <<1>>
        /\ cb_log[c] = <<1>>

-----------------------------------------------------------------------------
(* Properties of the session store *)

LiveSlots == {i \in 1 .. Len(sessions) : sessions[i].id # <<>>}

\* C7: no two live sessions (slots with a non-empty identifier) have the same
\* identifier.
C7_UniqueIds ==
    \A i, j \in LiveSlots : i # j => sessions[i].id # sessions[j].id

\* C8 as stated: session_value_set(s, k, v) followed by session_value_get(s, k)
\* returns v, for every key and value within the length caps.
C8_RoundTripAlways ==
    [][(/\ ss_last.op = "session_value_set"
        /\ ss_last'.op = "session_value_get"
        /\ ss_last'.slot = ss_last.slot
        /\ ss_last'.key = ss_last.key)
            => ss_last'.val = ss_last.val]_vars

\* C8 amended: session_value_set stores the pair exactly when the payload before
\* the call, the encoded key, the encoded value and the two separators together
\* are at most MAX_SESSION_DATA_SIZE bytes; a pair that was stored is returned
\* by the session_value_get that follows, byte for byte; a call that does not
\* store the pair leaves the payload as it was.
C8_RoundTripWhenStored ==
    [][/\ (/\ ss_last.op = "session_value_set"
           /\ ss_last.ret = 1
           /\ ss_last'.op = "session_value_get"
           /\ ss_last'.slot = ss_last.slot
           /\ ss_last'.key = ss_last.key)
               => ss_last'.val = ss_last.val
       /\ ss_last'.op = "session_value_set" =>
             LET s == ss_last'.slot
                 fits == Len(sessions[s].data)
                            + Len(UrlEncode(ss_last'.key, ctype_hi))
                            + Len(UrlEncode(ss_last'.val, ctype_hi)) + 2
                                <= MAX_SESSION_DATA_SIZE
             IN /\ (ss_last'.ret = 1) <=> fits
                /\ ss_last'.ret = 0 => sessions' = sessions
                /\ Len(sessions'[s].data) <= MAX_SESSION_DATA_SIZE]_vars

\* C8 witness: the value made of the two separator bytes was stored under the
\* key made of a separator byte, and session_value_get has returned it
C8_Witness ==
    /\ ss_last.op = "session_value_get"
    /\ ss_last.key = <<KV_DELIMITER>>
    /\ ss_last.val = <<PAIR_DELIMITER, KV_DELIMITER>>

\* C15: after any sequence of session_value_set and session_value_remove calls
\* the encoded payload of a session is at most MAX_SESSION_DATA_SIZE bytes
\* long, and a session_value_set that is rejected for exceeding the limit
\* leaves the payload as it was: every key returns what it returned before.
C15_PayloadBounded ==
    /\ [](\A i \in LiveSlots :
            sessions[i].data # NullStr =>
                Len(sessions[i].data) <= MAX_SESSION_DATA_SIZE)
    /\ [][(ss_last'.op = "session_value_set" /\ ss_last'.ret = 0) =>
            LET s == ss_last'.slot
            IN /\ sessions'[s].data = sessions[s].data
               /\ \A k \in Keys :
                     SessionValueGet(sessions'[s].data, k, ctype_hi)
                        = SessionValueGet(sessions[s].data, k, ctype_hi)
               /\ Len(sessions[s].data)
                     + Len(UrlEncode(ss_last'.key, ctype_hi))
                     + Len(UrlEncode(ss_last'.val, ctype_hi)) + 2
                        > MAX_SESSION_DATA_SIZE]_vars

\* C15 witness: a session_value_set of a short value was rejected on a payload
\* that holds two pairs and is full or one byte short of it
C15_Witness ==
    /\ ss_last.op = "session_value_set"
    /\ ss_last.ret = 0
    /\ Len(ss_last.val) <= 1
    /\ Len(sessions[ss_last.slot].data) >= MAX_SESSION_DATA_SIZE - 1
    /\ Cardinality({k \in Keys :
            SessionValueGet(sessions[ss_last.slot].data, k, ctype_hi) # NullStr}) >= 2

\* the number of pairs of a payload whose encoded key is encoded_key, counted
\* pair by pair from search_start as session_value_get walks the payload
RECURSIVE CountKeyFrom(_, _, _)
CountKeyFrom(data, search_start, encoded_key) ==
    IF search_start = 0 \/ search_start > Len(data) THEN 0
    ELSE
      LET key_end == IndexFrom(data, search_start, KV_DELIMITER)
          next_pair == IndexFrom(data, search_start, PAIR_DELIMITER)
          here == IF key_end # 0 /\ key_end - search_start = Len(encoded_key)
                      /\ SubSeq(data, search_start, key_end - 1) = encoded_key
                  THEN 1 ELSE 0
      IN here + CountKeyFrom(data, IF next_pair # 0 THEN next_pair + 1 ELSE 0,
                             encoded_key)

\* C16: when session_value_set(s, k, v1) has stored its pair and is followed by
\* session_value_set(s, k, v2) with a v2 that fits the size limit (the payload
\* with the pair of k replaced is at most MAX_SESSION_DATA_SIZE bytes long),
\* session_value_get(s, k) returns v2, the payload holds exactly one pair whose
\* key is k, and the values stored under other keys are unchanged.
C16_OverwriteReplaces ==
    [][(/\ ss_last.op = "session_value_set"
        /\ ss_last.ret = 1
        /\ ss_last'.op = "session_value_set"
        /\ ss_last'.slot = ss_last.slot
        /\ ss_last'.key = ss_last.key
        /\ Len(RemoveKeyFromData(sessions[ss_last.slot].data,
                                 UrlEncode(ss_last.key, ctype_hi)))
              + Len(UrlEncode(ss_last'.key, ctype_hi))
              + Len(UrlEncode(ss_last'.val, ctype_hi)) + 2 <= MAX_SESSION_DATA_SIZE)
       => LET s == ss_last.slot
              k == ss_last.key
          IN /\ SessionValueGet(sessions'[s].data, k, ctype_hi) = ss_last'.val
             /\ CountKeyFrom(sessions'[s].data, 1, UrlEncode(k, ctype_hi)) = 1
             /\ \A k2 \in Keys \ {k} :
                    SessionValueGet(sessions'[s].data, k2, ctype_hi)
                        = SessionValueGet(sessions[s].data, k2, ctype_hi)]_vars

\* the pairs of a payload in their order, each without its closing separator
RECURSIVE PairsFrom(_, _)
PairsFrom(data, start) ==
    IF start > Len(data) THEN <<>>
    ELSE LET pair_end == IndexFrom(data, start, PAIR_DELIMITER)
         IN IF pair_end = 0 THEN <<SubSeq(data, start, Len(data))>>
            ELSE <<SubSeq(data, start, pair_end - 1)>> \o PairsFrom(data, pair_end + 1)

\* the pair belongs to the encoded key: it starts with the key and the separator
PairHasKey(pair, encoded_key) ==
    /\ Len(pair) > Len(encoded_key)
    /\ SubSeq(pair, 1, Len(encoded_key) + 1) = encoded_key \o <<KV_DELIMITER>>

\* C24: after session_value_remove(s, k), session_value_get(s, k) returns
\* none, every other key returns the value it had, and the remaining pairs
\* are the pairs of before without the pair of k, in the same order; removing
\* a key that is not present leaves the payload unchanged.
C24_RemoveExcisesOnePair ==
    [][ss_last'.op = "session_value_remove" =>
          LET s == ss_last'.slot
              k == ss_last'.key
              ek == UrlEncode(k, ctype_hi)
              old == sessions[s].data
              new == sessions'[s].data
              Other(pair) == ~PairHasKey(pair, ek)
          IN /\ SessionValueGet(new, k, ctype_hi) = NullStr
             /\ \A k2 \in Keys \ {k} :
                    SessionValueGet(new, k2, ctype_hi)
                        = SessionValueGet(old, k2, ctype_hi)
             /\ PairsFrom(new, 1) = SelectSeq(PairsFrom(old, 1), Other)
             /\ SessionValueGet(old, k, ctype_hi) = NullStr => new = old
             /\ \A i \in 1 .. Len(sessions) : i # s => sessions'[i] = sessions[i]]_vars

\* C24 witness: session_value_remove has taken the pair of the separator key
\* out of a payload and two pairs are left
C24_Witness ==
    /\ ss_last.op = "session_value_remove"
    /\ ss_last.ret = 1
    /\ ss_last.key = <<KV_DELIMITER>>
    /\ Len(PairsFrom(sessions[ss_last.slot].data, 1)) = 2
    /\ \A k \in Keys \ {ss_last.key} :
            SessionValueGet(sessions[ss_last.slot].data, k, ctype_hi) # NullStr

HeaderNames(headers) == [i \in 1 .. Len(headers) |-> headers[i].name]

\* the step is a call of cookie_set
CookieSetCalled == ck_last.op = "none" /\ ck_last'.op = "cookie_set"

\* the configuration errors the claim C27 lists, for arguments that are not
\* null: an invalid name, a SameSite value other than Strict, Lax and None,
\* SameSite=None without Secure, max_age below -1, a value longer than the limit
ListedCookieError(a) ==
    \/ ~IsValidCookieName(a.name)
    \/ Len(a.value) > MAX_COOKIE_VALUE_LEN
    \/ /\ ~a.options.null
       /\ \/ a.options.max_age < -1
          \/ /\ a.options.same_site \notin {NullStr, <<>>}
             /\ a.options.same_site \notin {STR_STRICT, STR_LAX, STR_NONE}
          \/ a.options.same_site = STR_NONE /\ ~a.options.secure

\* C27: cookie_set leaves the headers of the response unchanged for every
\* listed configuration error (invalid name, SameSite other than Strict, Lax,
\* None, SameSite=None without Secure, max_age below -1, value longer than the
\* limit), and in every other case appends exactly one Set-Cookie header.
C27_RefusedExactlyOnListedErrors ==
    [][CookieSetCalled /\ cookie_args.name # NullStr /\ cookie_args.value # NullStr =>
          IF ListedCookieError(cookie_args)
          THEN res_headers' = res_headers
          ELSE /\ Len(res_headers') = Len(res_headers) + 1
               /\ SubSeq(res_headers', 1, Len(res_headers)) = res_headers
               /\ res_headers'[Len(res_headers')].name = STR_SET_COOKIE]_vars

\* C27 as the code has it: cookie_set also refuses a null name or value and a
\* cookie whose whole text (name, encoded value and attributes) is longer than
\* the limit; an empty SameSite string counts as no SameSite. In every other
\* case exactly one Set-Cookie header that starts with name=encoded value is
\* appended after the headers already set.
C27_RefusedOnErrorsAndOversize ==
    [][CookieSetCalled =>
          LET a == cookie_args
              text == CookieVal(a.name, a.value, a.options, ss_now)
          IN IF \/ a.name = NullStr \/ a.value = NullStr
                \/ ListedCookieError(a)
                \/ Len(text) > MAX_COOKIE_SIZE
             THEN res_headers' = res_headers
             ELSE /\ Len(res_headers') = Len(res_headers) + 1
                  /\ SubSeq(res_headers', 1, Len(res_headers)) = res_headers
                  /\ res_headers'[Len(res_headers')].name = STR_SET_COOKIE
                  /\ LET h == res_headers'[Len(res_headers')].value
                         pair == a.name \o <<61>> \o UrlEncodeValue(a.value)
                     IN /\ Len(h) <= MAX_COOKIE_SIZE
                        /\ SubSeq(h, 1, Len(pair)) = pair]_vars

\* C27 witness: cookie_set was called with SameSite=None and no Secure flag on
\* a response that had one header, and the response still has that one header.
C27_Witness ==
    /\ ck_last.op = "cookie_set"
    /\ IsValidCookieName(cookie_args.name)
    /\ cookie_args.value = STR_DARK
    /\ ~cookie_args.options.null
    /\ cookie_args.options.same_site = STR_NONE
    /\ ~cookie_args.options.secure
    /\ cookie_args.options.max_age = 0
    /\ Len(res_headers) = 1

\* the step is a call of session_send on the session in slot s
SessionSendCalled(s) == ss_last'.op = "session_send" /\ ss_last'.slot = s

\* C26: session_send with the default options on a session that is neither
\* freed nor expired gives the response one Set-Cookie header named session
\* whose value is the 32-character id and whose Max-Age is expires - now; it
\* emits no cookie for an expired or freed session; a later session_get on a
\* request that carries the cookie, before the session has expired, returns
\* that same session.
C26_SessionCookieRoundTrip ==
    /\ [][\A s \in 1 .. Len(sessions) :
            SessionSendCalled(s) =>
                IF sessions[s].id = <<>> \/ sessions[s].expires < ss_now
                THEN res_headers' = <<>>
                ELSE /\ HeaderNames(res_headers') = <<STR_SET_COOKIE>>
                     /\ Len(sessions[s].id) = SESSION_ID_LEN
                     /\ LET text == STR_SESSION \o <<61>> \o sessions[s].id
                                       \o STR_MAX_AGE
                                       \o FormatU(sessions[s].expires - ss_now) \o <<59>>
                        IN SubSeq(res_headers'[1].value, 1, Len(text)) = text]_vars
    /\ [](ss_last.op = "session_get" /\ ck_last.slot \in LiveSlots
            /\ sessions[ck_last.slot].id = ck_last.id
            /\ ss_now <= sessions[ck_last.slot].expires
          => ss_last.ret = ck_last.slot)

\* C26 in the states where the identifiers of the live sessions differ
C26_RoundTripWhenUnique ==
    /\ [][\A s \in 1 .. Len(sessions) :
            SessionSendCalled(s) =>
                IF sessions[s].id = <<>> \/ sessions[s].expires < ss_now
                THEN res_headers' = <<>>
                ELSE /\ HeaderNames(res_headers') = <<STR_SET_COOKIE>>
                     /\ Len(sessions[s].id) = SESSION_ID_LEN
                     /\ LET text == STR_SESSION \o <<61>> \o sessions[s].id
                                       \o STR_MAX_AGE
                                       \o FormatU(sessions[s].expires - ss_now) \o <<59>>
                        IN SubSeq(res_headers'[1].value, 1, Len(text)) = text]_vars
    /\ [](C7_UniqueIds /\ ss_last.op = "session_get" /\ ck_last.slot \in LiveSlots
            /\ sessions[ck_last.slot].id = ck_last.id
            /\ ss_now <= sessions[ck_last.slot].expires
          => ss_last.ret = ck_last.slot)

\* the mount static_handler serves the request from: the first whose
\* mount_path is a prefix of the request path (0: none)
MatchedMount ==
    IF \E i \in 1 .. Len(static_contexts) : MountMatches(req_path, static_contexts[i])
    THEN CHOOSE i \in 1 .. Len(static_contexts) :
            /\ MountMatches(req_path, static_contexts[i])
            /\ \A j \in 1 .. (i - 1) : ~MountMatches(req_path, static_contexts[j])
    ELSE 0

\* s starts with prefix
HasPrefix(s, prefix) == Len(s) >= Len(prefix) /\ SubSeq(s, 1, Len(prefix)) = prefix

\* C28, the part about the file: a read is started only for a file path that
\* contains neither ".." nor "//", and that path lies under the directory of
\* the mount that serves the request.
C28_ReadsStayUnderRoot ==
    st_res.read # NullStr =>
        /\ ~Contains(st_res.read, STR_DOTDOT)
        /\ ~Contains(st_res.read, STR_SLASHSLASH)
        /\ MatchedMount # 0
        /\ HasPrefix(st_res.read, static_contexts[MatchedMount].dir_path \o <<47>>)

\* C28: a file read is started only for a file path that contains neither ".."
\* nor "//" and lies under the directory of the mount; a request whose path
\* contains ".." or "//" is answered 403 or 404.
C28_UnsafeRequestsRefused ==
    /\ C28_ReadsStayUnderRoot
    /\ (Contains(req_path, STR_DOTDOT) \/ Contains(req_path, STR_SLASHSLASH)) =>
          st_res.status \in {0, 403, 404}

\* the file name a request path ends with: the bytes after its last '/'
RECURSIVE FileName(_)
FileName(path) ==
    IF IndexFrom(path, 1, 47) = 0 THEN path
    ELSE FileName(SubSeq(path, IndexFrom(path, 1, 47) + 1, Len(path)))

\* C29: with the dot_files option off, a request whose file name begins with a
\* dot, at any depth below the mount prefix, is answered 403 and no file is
\* read for it.
C29_DotFilesRefused ==
    /\ st_res # NoRes
    /\ MatchedMount # 0
    /\ ~static_contexts[MatchedMount].dot_files
    /\ FileName(req_path) # <<>>
    /\ Head(FileName(req_path)) = 46
    => st_res.status = 403 /\ st_res.read = NullStr

\* C29 for a dot at the start of the path below the mount prefix, the one
\* place static_handler looks at
C29_LeadingDotRefused ==
    /\ st_res # NoRes
    /\ MatchedMount # 0
    /\ ~static_contexts[MatchedMount].dot_files
    /\ RelPath(req_path, static_contexts[MatchedMount]) # <<>>
    /\ Head(RelPath(req_path, static_contexts[MatchedMount])) = 46
    => st_res.status = 403 /\ st_res.read = NullStr

\* C23: while a file operation started from the request is outstanding (started,
\* its terminal callback not yet run), the arena of the request is not
\* destroyed, also when the response has been written meanwhile.
C23_ArenaOutlivesOperations ==
    \A o \in FsOps : fs_ops[o].pc \in Outstanding => arena.alive

\* C9: session_find(id) returns the session that holds id and was not freed at
\* every time up to its expiry and returns none after it; it never returns an
\* expired session nor an empty slot.
C9_FindUntilExpiry ==
    ss_last.op = "session_find" =>
        /\ \A i \in LiveSlots :
              sessions[i].id = ss_last.key =>
                  /\ ss_now <= sessions[i].expires => ss_last.ret = i
                  /\ ss_now > sessions[i].expires => ss_last.ret = 0
        /\ ss_last.ret # 0 =>
              /\ sessions[ss_last.ret].id # <<>>
              /\ sessions[ss_last.ret].expires >= ss_now

\* C9 in the states where the identifiers of the live sessions differ: there
\* session_find keeps to the expiry as the claim has it.
C9_FindUntilExpiryWhenUnique == C7_UniqueIds => C9_FindUntilExpiry

\* C35: the session table only grows. A session_create that finds no empty
\* slot after the sweep doubles the capacity, puts the new session in the first
\* added slot and keeps every live session as it was; one that finds an empty
\* slot (never used, freed or just swept) takes the first such slot and leaves
\* the capacity alone; no step lowers the capacity.
C35_GrowOnly ==
    [][/\ ss_initialized => Len(sessions') >= Len(sessions)
       /\ ss_last'.op = "session_create" =>
             LET tab0 == IF ss_initialized THEN sessions ELSE SessionInitTable
                 tab1 == CleanupExpiredSessions(tab0, ss_now)
             IN IF \A i \in 1 .. Len(tab1) : tab1[i].id # <<>>
                THEN /\ Len(sessions') = 2 * Len(tab0)
                     /\ ss_last'.ret = Len(tab0) + 1
                     /\ sessions'[Len(tab0) + 1].id # <<>>
                     /\ \A i \in 1 .. Len(tab0) : sessions'[i] = tab0[i]
                     /\ \A i \in (Len(tab0) + 2) .. Len(sessions') : sessions'[i] = EmptySlot
                ELSE /\ Len(sessions') = Len(tab0)
                     /\ tab1[ss_last'.ret].id = <<>>
                     /\ \A j \in 1 .. (ss_last'.ret - 1) : tab1[j].id # <<>>
                     /\ sessions'[ss_last'.ret].id # <<>>
                     /\ \A i \in 1 .. Len(tab0) :
                            i # ss_last'.ret => sessions'[i] = tab1[i]]_vars

\* the table has grown to twice its first capacity, the session just created
\* sits in the first added slot and the sessions before it are live
C35_Witness ==
    /\ ss_last.op = "session_create"
    /\ Len(sessions) = 2 * MAX_SESSIONS_DEFAULT
    /\ ss_last.ret = MAX_SESSIONS_DEFAULT + 1
    /\ \A i \in 1 .. MAX_SESSIONS_DEFAULT : sessions[i].id # <<>> /\ sessions[i].expires >= ss_now

\* C39: a reference returned by session_create or session_find (the address of
\* a slot that holds a session not yet expired) denotes the same session after
\* any later session_create: the slot is still at that address and holds the
\* same id, payload and expiry.
C39_ReferencesSurviveCreate ==
    [][ss_last'.op = "session_create" =>
          \A i \in 1 .. Len(sessions) :
              sessions[i].id # <<>> /\ sessions[i].expires >= ss_now =>
                  /\ ~ss_last'.moved
                  /\ sessions'[i] = sessions[i]]_vars

\* C39 for the calls whose realloc leaves the table where it was: there the
\* slots of the sessions that have not expired keep their contents.
C39_ReferencesSurviveInPlace ==
    [][ss_last'.op = "session_create" /\ ~ss_last'.moved =>
          \A i \in 1 .. Len(sessions) :
              sessions[i].id # <<>> /\ sessions[i].expires >= ss_now =>
                  sessions'[i] = sessions[i]]_vars

\* the number of bytes of s that equal c
CountByte(s, c) == Cardinality({i \in 1 .. Len(s) : s[i] = c})

\* the encoded key of a pair: the bytes before its first key/value separator
PairKey(pair) == SubSeq(pair, 1, IndexFrom(pair, 1, KV_DELIMITER) - 1)

\* C36: in every payload reached by session_value_set and session_value_remove
\* the payload is empty or ends with the pair separator, each of its pairs
\* holds the key/value separator exactly once and is the encoding of a key
\* followed by it and the encoding of a value (so 0x1F and 0x1E never occur
\* inside an encoded key or value), and no two pairs have the same encoded key.
C36_PayloadWellFormed ==
    \A s \in 1 .. Len(sessions) :
        sessions[s].id # <<>> =>
            LET d == sessions[s].data
                pairs == PairsFrom(d, 1)
            IN /\ d # NullStr
               /\ d # <<>> => d[Len(d)] = PAIR_DELIMITER
               /\ CountByte(d, PAIR_DELIMITER) = Len(pairs)
               /\ CountByte(d, KV_DELIMITER) = Len(pairs)
               /\ \A i \in 1 .. Len(pairs) :
                      /\ CountByte(pairs[i], KV_DELIMITER) = 1
                      /\ \E k \in Keys, v \in Values :
                             pairs[i] = UrlEncode(k, ctype_hi) \o <<KV_DELIMITER>>
                                           \o UrlEncode(v, ctype_hi)
               /\ \A i, j \in 1 .. Len(pairs) :
                      i # j => PairKey(pairs[i]) # PairKey(pairs[j])

\* a payload of two pairs, one of them stored under the key that is the
\* key/value separator itself, after a value that holds both separators was
\* stored under that key and replaced
C36_Witness ==
    /\ ss_last.op = "session_value_set"
    /\ ss_last.ret = 1
    /\ ss_last.key = <<KV_DELIMITER>>
    /\ Len(PairsFrom(sessions[ss_last.slot].data, 1)) = 2
    /\ SessionValueGet(sessions[ss_last.slot].data, <<KV_DELIMITER>>, ctype_hi) = ss_last.val

\* C40: session_value_set(s, k, v) is accepted whenever the payload with the
\* pair of k replaced by the new pair is at most MAX_SESSION_DATA_SIZE bytes
\* long: the pair is stored and the payload is the old one without the pair of
\* k followed by the new pair.
C40_AcceptedWhenResultFits ==
    [][ss_last'.op = "session_value_set" =>
          LET s == ss_last'.slot
              ek == UrlEncode(ss_last'.key, ctype_hi)
              ev == UrlEncode(ss_last'.val, ctype_hi)
              rest == RemoveKeyFromData(sessions[s].data, ek)
          IN Len(rest) + Len(ek) + Len(ev) + 2 <= MAX_SESSION_DATA_SIZE =>
                /\ ss_last'.ret = 1
                /\ sessions'[s].data = rest \o ek \o <<KV_DELIMITER>> \o ev
                                            \o <<PAIR_DELIMITER>>]_vars

\* C40 with the size taken as the code takes it, before the old pair of k is
\* removed: then the pair is stored.
C40_AcceptedWhenSumFits ==
    [][ss_last'.op = "session_value_set" =>
          LET s == ss_last'.slot
              ek == UrlEncode(ss_last'.key, ctype_hi)
              ev == UrlEncode(ss_last'.val, ctype_hi)
              rest == RemoveKeyFromData(sessions[s].data, ek)
          IN Len(sessions[s].data) + Len(ek) + Len(ev) + 2 <= MAX_SESSION_DATA_SIZE =>
                /\ ss_last'.ret = 1
                /\ sessions'[s].data = rest \o ek \o <<KV_DELIMITER>> \o ev
                                            \o <<PAIR_DELIMITER>>]_vars

\* a readiness callback of context c has just met a result whose status is not OK
ErrorResultMet(c) == pg_last'.op = "on_poll" /\ pg_last'.c = c /\ pg_last'.outcome = "failed"

\* C31: when the bridge, draining results, meets a result whose status is not
\* OK, the result is given to the callback of the statement in flight, a
\* cancel request is issued on the connection, and the readiness handle is
\* stopped and closed before the context is released.
C31_ErrorResultCancels ==
    [][\A c \in Ctx :
          ErrorResultMet(c) =>
              /\ pg[c].current_query.cb =>
                    /\ Len(cb_log'[c]) > Len(cb_log[c])
                    /\ cb_log'[c][Len(cb_log'[c])] = pg[c].current_query.id
              /\ pg'[c].cancels = pg[c].cancels + 1
              /\ pg'[c].poll = "closing"
              /\ pg'[c].st = "live"]_vars

\* C31 without the cancel request: the result is given to the callback of the
\* statement in flight, the error is recorded, and the readiness handle, which
\* was stopped before the results were drained, is closed with on_poll_closed
\* as its callback while the context is still allocated.
C31_ErrorResultDeliveredAndClosed ==
    [][\A c \in Ctx :
          ErrorResultMet(c) =>
              /\ pg[c].current_query.cb =>
                    /\ Len(cb_log'[c]) > Len(cb_log[c])
                    /\ cb_log'[c][Len(cb_log'[c])] = pg[c].current_query.id
              /\ pg'[c].error_message
              /\ pg'[c].poll = "closing" /\ pg'[c].close_cb = "free"
              /\ pg'[c].st = "live"]_vars

\* no path of the bridge reaches PQcancel
C31_NeverCancels == \A c \in Ctx : pg[c].cancels = 0

\* C32: the memory of a context is released only by the close callback of its
\* readiness handle, after the handle has been closed, or at once when no
\* handle was ever initialised; it is released at most once on every path, a
\* released context has no handle that is armed, stopped or closing (so no
\* readiness callback can run on it), and nothing touches it afterwards.
C32_ReleasedOnceAfterClose ==
    /\ [](\A c \in Ctx :
            /\ pg[c].frees <= 1
            /\ pg[c].st = "freed" <=> pg[c].frees = 1
            /\ pg[c].st = "freed" => pg[c].poll \in {"uninit", "closed"}
            /\ pg[c].st = "freed" /\ pg[c].poll = "closed" => pg[c].close_cb = "free"
            /\ pg[c].poll = "closed" => pg[c].st = "freed")
    /\ [][\A c \in Ctx :
            /\ pg[c].st # "freed" /\ pg'[c].st = "freed" =>
                  \/ /\ pg_last'.op = "on_poll_closed" /\ pg_last'.c = c
                     /\ pg[c].poll = "closing" /\ pg'[c].poll = "closed"
                  \/ /\ pg[c].poll = "uninit" /\ ~pg[c].handle_initialized
                     /\ pg'[c].poll = "uninit"
            /\ pg[c].st = "freed" =>
                  /\ pg'[c] = pg[c]
                  /\ ~(pg_last'.op \in {"on_poll", "on_poll_closed"} /\ pg_last'.c = c)]_vars

\* one context was released by on_poll_closed after its statement failed on a
\* result, the other at once because its first statement never got a handle
C32_Witness ==
    /\ NumCtx >= 2
    /\ pg[1].st = "freed" /\ pg[1].poll = "closed" /\ pg[1].error_message
    /\ cb_log[1] # <<>>
    /\ pg[2].st = "freed" /\ pg[2].poll = "uninit" /\ pg[2].error_message
    /\ pg_last.op = "on_poll_closed"

PgRunDone(c) ==
    /\ \A i \in 1 .. (nid[c] - 1) : \E k \in 1 .. Len(cb_log[c]) : cb_log[c][k] = i
    /\ pg[c].poll \in {"closing", "closed"}
    /\ pg[c].decs = pg[c].incs
    /\ async_work = Cardinality({d \in Ctx : pg[d].is_executing})

\* C33: while the server runs, nothing fails in sending or on the connection
\* and the readiness callbacks are fair, a context that query_execute started
\* eventually has run the callback of every statement queued on it, closes its
\* handle, and gives back its count of outstanding work.
C33_ExecutingLeadsToDone ==
    \A c \in Ctx : pg[c].is_executing ~> PgRunDone(c)

\* C33 for the contexts none of whose statements gets a result with a status
\* other than OK: such a result, after it was given to its callback, ends the
\* context with the rest of its queue dropped, its handle closed and its count
\* of outstanding work given back, which is the other way the execution ends.
C33_ExecutingLeadsToDoneOrFailed ==
    \A c \in Ctx :
        pg[c].is_executing ~>
            \/ PgRunDone(c)
            \/ /\ pg[c].error_message
               /\ cb_log[c] # <<>>
               /\ pg[c].poll \in {"closing", "closed"}
               /\ pg[c].decs = pg[c].incs

\* a context ran the callbacks of its two statements, none failed, and it was
\* freed by the close callback with the work counter back at zero
C33_Witness ==
    \E c \in Ctx :
        /\ nid[c] >= 3
        /\ PgRunDone(c)
        /\ ~pg[c].error_message
        /\ pg[c].st = "freed"
        /\ pg[c].incs = 1
        /\ async_work = 0

\* C38: the memory of a worker record is never re-initialised by a respawn
\* while the close of the process handle it embeds is pending, and it is never
\* freed by cluster_cleanup while that handle is registered with the loop or
\* has a close pending.
C38_RecordOutlivesHandle ==
    /\ clobbered = {}
    /\ \A i \in WorkerIds :
          hs[i] \in {"active", "closing"} => cluster_state.workers_alloc

\* C38, the part on respawn alone
C38_NoReinitWhileClosing == clobbered = {}

\* C38, the part on cluster_cleanup alone
C38_NoFreeWhileRegistered ==
    \A i \in WorkerIds :
        hs[i] \in {"active", "closing"} => cluster_state.workers_alloc

\* C37: whenever the master, running, has accepted a graceful-restart signal
\* (the flag is set), and every signalled worker exits and every respawn
\* succeeds, the flag is eventually cleared (or the master has left its wait
\* routine).
C37_RestartCompletes ==
    (cluster_state.graceful_restart_requested /\ MasterRunning)
        ~> (~cluster_state.graceful_restart_requested \/ ~MasterRunning)

\* C37 for the restarts accepted while every worker record is active
C37_RestartOfFullClusterCompletes ==
    (/\ cluster_state.graceful_restart_requested /\ MasterRunning
     /\ \A i \in WorkerIds : i < cluster_state.worker_count => workers[i].active)
        ~> (~cluster_state.graceful_restart_requested \/ ~MasterRunning)

====
